---- MODULE Spec2Model ----
(***************************************************************************)
(* A model of the ultimate-crud-app repository: the business-rule          *)
(* validation middleware, the JWT security middleware, the entity          *)
(* descriptors and the startup of the application, and the CRUD engine     *)
(* the application is built on.                                            *)
(***************************************************************************)
EXTENDS Integers, Sequences, FiniteSets, TLC

VARIABLES
    vreq,      \* validation middleware: the request handed to validateUserData
    vout,      \* validation middleware: what the middleware did with it
    areq,      \* security middleware: the request handed to requireAuthForAPI
    aout,      \* security middleware: what the middleware did with it
    env,       \* startup: the process environment (DB_DIALECT) and descriptor file
    pc,        \* startup: position of initializeApp
    registry,  \* startup: the entities the engine has registered so far
    served,    \* startup: the REST routes and GraphQL fields being served
    calls,     \* startup: the routine names the engine has called
    hit,       \* startup: the last request on an entity route with its response
    exitCode,  \* startup: the code of process.exit, if the process has exited
    closing,   \* startup: SIGINT received, sequelize.close() not yet resolved
    descr,     \* engine: the descriptor file the tables were registered from
    store,     \* engine: the rows of every table
    nextId,    \* engine: the next auto-increment value of every table
    resp,      \* engine: the last request with the response it got
    links,     \* associations: the committed belongsToMany links of every owner
    tx,        \* associations: the transaction of every replace request
    sqlDialect, \* associations: the dialect of the database the links are in
    ereq,      \* error handling: a handler, NODE_ENV and the exceptions of two failing requests
    eout,      \* error handling: the response bodies of the two requests
    decl,      \* associations: the descriptor file and the order its entities are declared in
    known,     \* associations: the descriptors registered by pass 1
    resolved,  \* associations: the outcome of pass 2
    users,     \* registration: the rows of the users table
    regs,      \* registration: every POST /auth/register request with its position in the handler
    sequelizeSet, \* auth routes: whether app.locals.sequelize is set
    accounts,  \* session: the rows of the users table the auth routes read
    held,      \* session: the tokens a client got at login
    sres,      \* session: the last request of the client with its response
    loggedOut, \* session: whether a logout of the client has succeeded
    inflight,  \* session: the requests of the client that wait for the database
    hits,      \* session: the requests generalRateLimit has counted in its window
    breq,      \* business rules: the request handed to checkBusinessRules
    bout       \* business rules: what the middleware did with it

vars == <<vreq, vout, areq, aout, env, pc, registry, served, calls, hit, exitCode, closing, descr, store, nextId, resp,
          links, tx, sqlDialect,
          ereq, eout,
          decl, known, resolved,
          users, regs, sequelizeSet,
          accounts, held, sres, loggedOut, inflight, hits,
          breq, bout>>

valVars == <<vreq, vout>>
authVars == <<areq, aout>>
startVars == <<env, pc, registry, served, calls, hit, exitCode, closing>>
crudVars == <<descr, store, nextId, resp>>
assocVars == <<links, tx, sqlDialect>>
errVars == <<ereq, eout>>
resolveVars == <<decl, known, resolved>>
registerVars == <<users, regs, sequelizeSet>>
sessionVars == <<accounts, held, sres, loggedOut, inflight, hits>>
rulesVars == <<breq, bout>>

\* The variables of the other parts, which a step of one part leaves alone.
notValVars == <<authVars, startVars, crudVars, assocVars, errVars, resolveVars, registerVars, sessionVars, rulesVars>>
notAuthVars == <<valVars, startVars, crudVars, assocVars, errVars, resolveVars, registerVars, sessionVars, rulesVars>>
notStartVars == <<valVars, authVars, crudVars, assocVars, errVars, resolveVars, registerVars, sessionVars, rulesVars>>
notCrudVars == <<valVars, authVars, startVars, assocVars, errVars, resolveVars, registerVars, sessionVars, rulesVars>>
notAssocVars == <<valVars, authVars, startVars, crudVars, errVars, resolveVars, registerVars, sessionVars, rulesVars>>
notErrVars == <<valVars, authVars, startVars, crudVars, assocVars, resolveVars, registerVars, sessionVars, rulesVars>>
notResolveVars == <<valVars, authVars, startVars, crudVars, assocVars, errVars, registerVars, sessionVars, rulesVars>>
notRegisterVars == <<valVars, authVars, startVars, crudVars, assocVars, errVars, resolveVars, sessionVars, rulesVars>>
notSessionVars == <<valVars, authVars, startVars, crudVars, assocVars, errVars, resolveVars, registerVars, rulesVars>>
notRulesVars == <<valVars, authVars, startVars, crudVars, assocVars, errVars, resolveVars, registerVars, sessionVars>>

(***************************************************************************)
(* JavaScript strings.                                                     *)
(***************************************************************************)

\* s.startsWith(p)
StartsWith(s, p) == Len(s) >= Len(p) /\ SubSeq(s, 1, Len(p)) = p

\* s.indexOf(c) for a one-character c, 1-based; 0 when c does not occur
IndexOf(s, c) ==
    IF \E i \in 1..Len(s) : SubSeq(s, i, i) = c
    THEN CHOOSE i \in 1..Len(s) :
             /\ SubSeq(s, i, i) = c
             /\ \A j \in 1..(i - 1) : SubSeq(s, j, j) # c
    ELSE 0

\* s.split(c): the pieces of s between the occurrences of c
RECURSIVE Split(_, _)
Split(s, c) ==
    LET i == IndexOf(s, c)
    IN  IF i = 0 THEN <<s>>
        ELSE <<SubSeq(s, 1, i - 1)>> \o Split(SubSeq(s, i + 1, Len(s)), c)

LowerChars == {"a", "b", "c", "d", "e", "f", "g", "h", "i", "j", "k", "l", "m",
               "n", "o", "p", "q", "r", "s", "t", "u", "v", "w", "x", "y", "z"}
UpperChars == {"A", "B", "C", "D", "E", "F", "G", "H", "I", "J", "K", "L", "M",
               "N", "O", "P", "Q", "R", "S", "T", "U", "V", "W", "X", "Y", "Z"}
DigitChars == {"0", "1", "2", "3", "4", "5", "6", "7", "8", "9"}

\* /^[...]+$/.test(s) for a character class given as a set of characters
MatchesClass(s, class) ==
    Len(s) >= 1 /\ \A i \in 1..Len(s) : SubSeq(s, i, i) \in class

(***************************************************************************)
(* middleware/validation.js                                                *)
(***************************************************************************)

\* A body field is absent when it is not in the body's domain (undefined).
Has(body, f) == f \in DOMAIN body

\* if (x) for a string field: present and not the empty string
Truthy(body, f) == Has(body, f) /\ body[f] # ""

\* An age is a number or null.
JsNull == [isNull |-> TRUE, n |-> 0]
Num(n) == [isNull |-> FALSE, n |-> n]

Valid == [valid |-> TRUE, message |-> ""]
Invalid(msg) == [valid |-> FALSE, message |-> msg]

blockedDomains == {"gmail.com", "tempmail.org", "10minutemail.com"}

validateEmailDomain(email) ==
    LET parts == Split(email, "@")
    IN  IF Len(parts) >= 2 /\ parts[2] \in blockedDomains
        THEN Invalid("Email addresses from " \o parts[2] \o " are not allowed")
        ELSE Valid

MinAge == 18
MaxAge == 120

validateAge(age) ==
    IF ~age.isNull
    THEN IF age.n < MinAge THEN Invalid("Age must be at least 18 years old")
         ELSE IF age.n > MaxAge THEN Invalid("Age must be less than 120 years")
         ELSE Valid
    ELSE Valid

MinUsernameLen == 3

UsernameChars == LowerChars \cup UpperChars \cup DigitChars \cup {"_"}

validateUsername(username) ==
    IF username # ""
    THEN IF Len(username) < MinUsernameLen
         THEN Invalid("Username must be at least 3 characters long")
         ELSE IF ~MatchesClass(username, UsernameChars)
         THEN Invalid("Username can only contain letters, numbers, and underscores")
         ELSE Valid
    ELSE Valid

\* What a middleware did: called next(), or answered with a status and a body.
CallNext == [next |-> TRUE, status |-> 0, errors |-> <<>>]
Answer(code, errs) == [next |-> FALSE, status |-> code, errors |-> errs]

FieldError(f, v) == IF v.valid THEN <<>> ELSE <<[field |-> f, message |-> v.message]>>

userDataErrors(body) ==
    (IF Truthy(body, "email")
        THEN FieldError("email", validateEmailDomain(body["email"])) ELSE <<>>)
    \o (IF Has(body, "age")
        THEN FieldError("age", validateAge(body["age"])) ELSE <<>>)
    \o (IF Truthy(body, "username")
        THEN FieldError("username", validateUsername(body["username"])) ELSE <<>>)

\* validateUserData with the method test narrowed to POST
validateUserDataPostOnly(method, body) ==
    IF method = "POST" /\ Len(userDataErrors(body)) > 0
    THEN Answer(400, userDataErrors(body))
    ELSE CallNext

\* validateUserData answering with the first error only
validateUserDataFirstError(method, body) ==
    IF method \in {"POST", "PUT"} /\ Len(userDataErrors(body)) > 0
    THEN Answer(400, <<Head(userDataErrors(body))>>)
    ELSE CallNext

validateUserData(method, body) ==
    IF method \in {"POST", "PUT"} /\ Len(userDataErrors(body)) > 0
    THEN Answer(400, userDataErrors(body))
    ELSE CallNext

MinCategoryNameLen == 2

SlugChars == LowerChars \cup DigitChars \cup {"-"}

categoryDataErrors(body) ==
    (IF Truthy(body, "name") /\ Len(body["name"]) < MinCategoryNameLen
        THEN <<[field |-> "name",
                message |-> "Category name must be at least 2 characters long"]>>
        ELSE <<>>)
    \o (IF Truthy(body, "slug") /\ ~MatchesClass(body["slug"], SlugChars)
        THEN <<[field |-> "slug",
                message |-> "Slug can only contain lowercase letters, numbers, and hyphens"]>>
        ELSE <<>>)

\* validateCategoryData without the return in front of the 400 answer
validateCategoryDataFallThrough(method, body) ==
    IF method \in {"POST", "PUT"} /\ Len(categoryDataErrors(body)) > 0
    THEN [next |-> TRUE, status |-> 400, errors |-> categoryDataErrors(body)]
    ELSE CallNext

validateCategoryData(method, body) ==
    IF method \in {"POST", "PUT"} /\ Len(categoryDataErrors(body)) > 0
    THEN Answer(400, categoryDataErrors(body))
    ELSE CallNext

(***************************************************************************)
(* The requests handed to the validation middleware.                       *)
(***************************************************************************)

Methods == {"GET", "POST", "PUT", "DELETE"}

EmailSamples == {"", "a@x.com", "t@gmail.com", "t@GMAIL.COM", "a@b@gmail.com",
                 "t@tempmail.org"}
UsernameSamples == {"", "ab", "a!", "admin", "bad name!"}
AgeSamples == {JsNull, Num(17), Num(18), Num(119), Num(120), Num(121)}
NameSamples == {"A", "Tech"}
SlugSamples == {"tech-1", "Invalid@Slug!"}

WellTyped(body, samples) == \A f \in DOMAIN body : body[f] \in samples[f]

UserSamples == [email |-> EmailSamples, age |-> AgeSamples, username |-> UsernameSamples]
CategorySamples == [name |-> NameSamples, slug |-> SlugSamples]

UserBodies ==
    UNION {{b \in [d -> EmailSamples \cup UsernameSamples] : WellTyped(b, UserSamples)}
             : d \in SUBSET {"email", "username"}}

AgeBodies == {<<>>} \cup {[f \in {"age"} |-> a] : a \in AgeSamples}

\* b1 and b2 have disjoint domains: the body with the fields of both
Merge(b1, b2) ==
    [f \in DOMAIN b1 \cup DOMAIN b2 |-> IF f \in DOMAIN b1 THEN b1[f] ELSE b2[f]]

CategoryBodies ==
    UNION {{b \in [d -> NameSamples \cup SlugSamples] : WellTyped(b, CategorySamples)}
             : d \in SUBSET {"name", "slug"}}

Pending == [next |-> FALSE, status |-> 0, errors |-> <<>>]

ValRequests ==
    {[mw |-> "user", method |-> m, body |-> Merge(b, a)] :
        m \in Methods, b \in UserBodies, a \in AgeBodies}
    \cup {[mw |-> "category", method |-> m, body |-> b] :
        m \in Methods, b \in CategoryBodies}

ValInit ==
    /\ vreq \in ValRequests
    /\ vout = Pending

\* A request on /api/users passes through validateUserData.
ValidateUser ==
    /\ vreq.mw = "user"
    /\ vout = Pending
    /\ vout' = validateUserData(vreq.method, vreq.body)
    /\ UNCHANGED <<vreq, notValVars>>

\* A request on /api/categories passes through validateCategoryData.
ValidateCategory ==
    /\ vreq.mw = "category"
    /\ vout = Pending
    /\ vout' = validateCategoryData(vreq.method, vreq.body)
    /\ UNCHANGED <<vreq, notValVars>>

ValNext ==
    \/ ValidateUser
    \/ ValidateCategory

(***************************************************************************)
(* middleware/auth.js: tokens.                                             *)
(***************************************************************************)

Issuer == "ultimate-crud-app"
Audience == "ultimate-crud-api"

\* A token as jwt.verify sees it: whether its signature was made with
\* JWT_SECRET, whether its exp has passed, its iss and aud, and its payload.
Token(sig, exp, iss, aud, payload) ==
    [signed |-> sig, expired |-> exp, iss |-> iss, aud |-> aud, payload |-> payload]

AccessPayload(user) ==
    [id |-> user.id, username |-> user.username, email |-> user.email,
     role |-> IF user.role = "" THEN "user" ELSE user.role]

RefreshPayload(user) == [id |-> user.id, type |-> "refresh"]

\* jwt.sign with JWT_SECRET, the issuer and the audience; not yet expired
generateTokens(user) ==
    [accessToken |-> Token(TRUE, FALSE, Issuer, Audience, AccessPayload(user)),
     refreshToken |-> Token(TRUE, FALSE, Issuer, Audience, RefreshPayload(user))]

\* jwt.verify with ignoreExpiration
VerifiesIgnoringExpiry(token) ==
    /\ token.signed
    /\ token.iss = Issuer
    /\ token.aud = Audience

\* jwt.verify(token, JWT_SECRET, {issuer, audience}) does not throw
Verifies(token) ==
    /\ token.signed
    /\ ~token.expired
    /\ token.iss = Issuer
    /\ token.aud = Audience

\* verifyToken: the decoded payload, or an Error('Invalid or expired token')
verifyToken(token) ==
    IF Verifies(token)
    THEN [ok |-> TRUE, decoded |-> {token.payload}, message |-> ""]
    ELSE [ok |-> FALSE, decoded |-> {}, message |-> "Invalid or expired token"]

\* An Authorization header: its first characters and the token after them.
NoHeader == [present |-> FALSE, prefix |-> "", token |-> {}]
Header(prefix, token) == [present |-> TRUE, prefix |-> prefix, token |-> {token}]

\* What the security middleware did with a request.
AuthOutcome(nextCalled, status, error, user, isAuth, checked) ==
    [next |-> nextCalled, status |-> status, error |-> error, user |-> user,
     isAuthenticated |-> isAuth, authenticated |-> checked]

PassThrough == AuthOutcome(TRUE, 0, "", {}, FALSE, FALSE)

BearerPrefix == "Bearer "

authenticate(headers) ==
    IF ~headers.present \/ ~StartsWith(headers.prefix, BearerPrefix)
    THEN AuthOutcome(FALSE, 401, "Authentication required", {}, FALSE, TRUE)
    ELSE LET token == CHOOSE t \in headers.token : TRUE
             v == verifyToken(token)
         IN  IF v.ok
             THEN AuthOutcome(TRUE, 0, "", v.decoded, TRUE, TRUE)
             ELSE AuthOutcome(FALSE, 401, "Authentication failed", {}, FALSE, TRUE)

(***************************************************************************)
(* middleware/security.js                                                  *)
(***************************************************************************)

isPublicRoute(path) ==
    \/ path = "/"
    \/ StartsWith(path, "/auth/") \/ path = "/auth"
    \/ path \in {"/health", "/docs", "/api-docs"}

\* requireAuthForAPI with path.startsWith('/api/') for the API test
requireAuthForAPISlash(path, method, headers) ==
    IF isPublicRoute(path) THEN PassThrough
    ELSE IF path = "/graphql" /\ method = "GET" THEN PassThrough
    ELSE IF StartsWith(path, "/api/") \/ path = "/graphql" THEN authenticate(headers)
    ELSE PassThrough

requireAuthForAPI(path, method, headers) ==
    IF isPublicRoute(path) THEN PassThrough
    ELSE IF path = "/graphql" /\ method = "GET" THEN PassThrough
    ELSE IF StartsWith(path, "/api") \/ path = "/graphql" THEN authenticate(headers)
    ELSE PassThrough

(***************************************************************************)
(* The requests handed to the security middleware.                         *)
(***************************************************************************)

PathSamples == {"/", "/health", "/docs", "/api-docs", "/api-docs/ui", "/auth",
                "/auth/login", "/authors", "/api", "/api/users", "/api/posts/1",
                "/apiary", "/graphql", "/graphql/", "/openapi.json", "/API/users"}

UserSamplesAuth ==
    {[id |-> 1, username |-> "admin", email |-> "admin@ultimate-crud.com", role |-> "admin"],
     [id |-> 2, username |-> "bob", email |-> "bob@x.com", role |-> ""]}

PayloadSamples ==
    {AccessPayload(u) : u \in UserSamplesAuth} \cup {RefreshPayload(u) : u \in UserSamplesAuth}

TokenSamples ==
    {Token(sig, exp, iss, aud, p) :
        sig \in BOOLEAN, exp \in BOOLEAN, iss \in {Issuer, "other-app"},
        aud \in {Audience, "other-api"}, p \in PayloadSamples}

HeaderSamples ==
    {NoHeader} \cup {Header(pre, t) : pre \in {BearerPrefix, "bearer ", "Basic "},
                                      t \in TokenSamples}

AuthPending == AuthOutcome(FALSE, 0, "", {}, FALSE, FALSE)

AuthRequests ==
    {[path |-> p, method |-> m, headers |-> h] :
        p \in PathSamples, m \in Methods, h \in HeaderSamples}

AuthInit ==
    /\ areq \in AuthRequests
    /\ aout = AuthPending

\* A request arrives at app.use(requireAuthForAPI()).
SecureRequest ==
    /\ aout = AuthPending
    /\ aout' = requireAuthForAPI(areq.path, areq.method, areq.headers)
    /\ UNCHANGED <<areq, notAuthVars>>

AuthNext == SecureRequest

(***************************************************************************)
(* model/entities.js: the entity descriptors, in declaration order.        *)
(***************************************************************************)

\* A descriptor: procedure is the set holding the explicit procedure
\* property when the descriptor has one, sql tells whether it carries sql.
Descriptor(name, type, route, procedure, sql) ==
    [name |-> name, type |-> type, route |-> route, procedure |-> procedure, sql |-> sql]

Table(name, route) == Descriptor(name, "table", route, {}, FALSE)
\* a view descriptor written with type: 'table'
ViewAsTable(name, route) == Descriptor(name, "table", route, {}, FALSE)
View(name, route) == Descriptor(name, "view", route, {}, FALSE)
Query(name, route) == Descriptor(name, "query", route, {}, TRUE)

\* type: process.env.DB_DIALECT === 'sqlite' ? 'query' : 'procedure', with
\* sql spread in only in the first case and no procedure property in either
DialectEntity(name, route, DB_DIALECT) ==
    IF DB_DIALECT = "sqlite"
    THEN Descriptor(name, "query", route, {}, TRUE)
    ELSE Descriptor(name, "procedure", route, {}, FALSE)

BlogEntities ==
    << Table("users", "/api/users"),
       Table("categories", "/api/categories"),
       Table("posts", "/api/posts"),
       Table("comments", "/api/comments"),
       View("post_stats", "/api/post-stats"),
       View("user_analytics", "/api/user-analytics"),
       View("category_summary", "/api/category-summary"),
       Query("recent_posts", "/api/recent-posts"),
       Query("search_posts", "/api/search-posts") >>

\* The descriptor file whose last two entities depend on DB_DIALECT.
dialectEntities(DB_DIALECT) ==
    BlogEntities \o
    << DialectEntity("user_summary", "/api/user-summary", DB_DIALECT),
       DialectEntity("popular_posts", "/api/popular-posts", DB_DIALECT) >>

\* The descriptor file with the explicit procedure property and the
\* custom-primary-key test tables.
explicitEntities ==
    BlogEntities \o
    << Descriptor("user_summary", "procedure", "/api/user-summary", {"user_summary"}, FALSE),
       Query("popular_posts", "/api/popular-posts"),
       Table("products", "/api/products"),
       Table("orders", "/api/orders"),
       Table("order_items", "/api/order-items"),
       Table("inventory", "/api/inventory") >>

entities(e) ==
    IF e.file = "dialect" THEN dialectEntities(e.DB_DIALECT) ELSE explicitEntities

(***************************************************************************)
(* index.js                                                                *)
(***************************************************************************)

\* dbConfig.dialect: process.env.DB_DIALECT || 'sqlite'
dbConfigDialect(e) == IF e.DB_DIALECT = "" THEN "sqlite" ELSE e.DB_DIALECT

(***************************************************************************)
(* The engine's registration of the entities and the surfaces it builds.   *)
(***************************************************************************)

\* The routine a procedure entity calls: its procedure property, which
\* reads as undefined when the descriptor has none.
routineOf(d) ==
    IF d.procedure = {} THEN "undefined" ELSE CHOOSE r \in d.procedure : TRUE

restRoutesOf(d) ==
    CASE d.type = "table" ->
            {[method |-> m, route |-> d.route] : m \in {"GET", "POST"}}
            \cup {[method |-> m, route |-> d.route \o "/:id"] : m \in {"GET", "PUT", "DELETE"}}
      [] d.type = "view" -> {[method |-> "GET", route |-> d.route]}
      [] d.type = "query" -> {[method |-> "GET", route |-> d.route]}
      [] d.type = "procedure" -> {[method |-> "POST", route |-> d.route]}

graphqlFieldsOf(d) ==
    IF d.type = "table"
    THEN {[op |-> o, entity |-> d.name] : o \in {"single", "list", "create", "update", "delete"}}
    ELSE {}

RECURSIVE surfaces(_)
surfaces(reg) ==
    IF reg = <<>> THEN [rest |-> {}, graphql |-> {}]
    ELSE LET rest == surfaces(Tail(reg))
         IN  [rest |-> restRoutesOf(Head(reg)) \cup rest.rest,
              graphql |-> graphqlFieldsOf(Head(reg)) \cup rest.graphql]

NothingServed == [rest |-> {}, graphql |-> {}]

Dialects == {"", "sqlite", "mysql", "postgres"}

\* No request on an entity route yet.
NoHit == [route |-> "", method |-> "", status |-> 0, error |-> "", query |-> "none"]

Hit(route, method, status, error, query) ==
    [route |-> route, method |-> method, status |-> status, error |-> error, query |-> query]

\* The executor on an entity of kind d.type: the query it constructs for
\* method m and the status of the answer.  A write on a view is rejected
\* before a query is constructed.
execute(d, m) ==
    CASE d.type = "table" /\ m = "GET" -> Hit(d.route, m, 200, "", "select")
      [] d.type = "table" /\ m = "POST" -> Hit(d.route, m, 201, "", "insert")
      [] d.type = "view" /\ m = "GET" -> Hit(d.route, m, 200, "", "select")
      [] d.type = "query" /\ m = "GET" -> Hit(d.route, m, 200, "", "select")
      [] OTHER -> Hit(d.route, m, 405, "UnsupportedOperationError", "none")

\* The REST generator in front of the executor: a method the entity kind
\* has no route for is rejected there.
dispatch(d, m, rest) ==
    IF [method |-> m, route |-> d.route] \in rest
    THEN execute(d, m)
    ELSE Hit(d.route, m, 405, "UnsupportedOperationError", "none")

StartInit ==
    /\ env \in [DB_DIALECT : Dialects, file : {"dialect", "explicit"},
                dbUp : BOOLEAN, missing : {"", "posts", "post_stats"}]
    /\ pc = "start"
    /\ registry = <<>>
    /\ served = NothingServed
    /\ calls = {}
    /\ hit = NoHit
    /\ exitCode = {}
    /\ closing = FALSE

\* sequelize.authenticate() with its rejection swallowed
AuthenticateUnchecked ==
    /\ pc = "start"
    /\ pc' = "registering"
    /\ UNCHANGED <<env, registry, served, calls, hit, exitCode, closing, notStartVars>>

\* await sequelize.authenticate() settles.  Resolved: UltimateCrud.create()
\* and ultimateCrud.initialize() are called in the same turn.  Rejected: the
\* rejection is caught and the process exits with process.exit(1).
Authenticate ==
    /\ pc = "start"
    /\ pc' = IF env.dbUp THEN "registering" ELSE "exited"
    /\ exitCode' = IF env.dbUp THEN exitCode ELSE {1}
    /\ UNCHANGED <<env, registry, served, calls, hit, closing, notStartVars>>

\* initialize() takes the next descriptor: a table or view the database does
\* not have makes initialize() reject, which is caught and exits the process.
RegisterEntity ==
    /\ pc = "registering"
    /\ Len(registry) < Len(entities(env))
    /\ LET d == entities(env)[Len(registry) + 1]
       IN  IF d.type \in {"table", "view"} /\ d.name = env.missing
           THEN pc' = "exited" /\ exitCode' = {1} /\ UNCHANGED registry
           ELSE pc' = pc /\ registry' = Append(registry, d) /\ UNCHANGED exitCode
    /\ UNCHANGED <<env, served, calls, hit, closing, notStartVars>>

\* initialize() resolves once every entity is registered and its routes and
\* GraphQL fields are mounted on app; in the same turn app.get('/health'),
\* app.get('/') and app.listen(PORT) are called.
FinishInitialize ==
    /\ pc = "registering"
    /\ Len(registry) = Len(entities(env))
    /\ served' = [surfaces(registry) EXCEPT
                      !.rest = @ \cup {[method |-> "GET", route |-> "/health"],
                                       [method |-> "GET", route |-> "/"]}]
    /\ pc' = "listening"
    /\ UNCHANGED <<env, registry, calls, hit, exitCode, closing, notStartVars>>

\* process.on('SIGINT'): the handler calls sequelize.close() and waits for it;
\* the start-up goes on meanwhile.
Sigint ==
    /\ pc \notin {"off", "exited"}
    /\ ~closing
    /\ closing' = TRUE
    /\ UNCHANGED <<env, pc, registry, served, calls, hit, exitCode, notStartVars>>

\* sequelize.close() has resolved: process.exit(0)
SigintExit ==
    /\ pc \notin {"off", "exited"}
    /\ closing
    /\ pc' = "exited"
    /\ exitCode' = {0}
    /\ UNCHANGED <<env, registry, served, calls, hit, closing, notStartVars>>

\* A POST on the route of a procedure entity calls its routine.  The
\* listener goes on taking requests after a SIGINT, until the process exits.
CallProcedure(i) ==
    /\ pc = "listening"
    /\ registry[i].type = "procedure"
    /\ [method |-> "POST", route |-> registry[i].route] \in served.rest
    /\ calls' = calls \cup {routineOf(registry[i])}
    /\ UNCHANGED <<env, pc, registry, served, hit, exitCode, closing, notStartVars>>

\* A request with method m on the route of a table, view or query entity.
Request(i, m) ==
    /\ pc = "listening"
    /\ registry[i].type # "procedure"
    /\ hit' = dispatch(registry[i], m, served.rest)
    /\ UNCHANGED <<env, pc, registry, served, calls, exitCode, closing, notStartVars>>

StartNext ==
    \/ Authenticate
    \/ RegisterEntity
    \/ FinishInitialize
    \/ Sigint
    \/ SigintExit
    \/ \E i \in 1..Len(registry) : CallProcedure(i)
    \/ \E i \in 1..Len(registry) : \E m \in Methods : Request(i, m)

(***************************************************************************)
(* data/*.sql: the tables, with the columns the requests of the model use. *)
(* A row or a body is a function from the columns that have a value.  The  *)
(* value of a VARCHAR column is its string and the value of an INT column  *)
(* its digits, as the body and the route carry them; the value of a        *)
(* DECIMAL column is a JSON number or a JSON string, kept with its text.   *)
(***************************************************************************)

JsonNumber(text) == [json |-> "number", text |-> text]
JsonString(text) == [json |-> "string", text |-> text]

Tables == {"users", "products", "orders", "order_items"}

ForeignKey(col, table, ref) == [col |-> col, table |-> table, ref |-> ref]

\* PRIMARY KEY with only its first column
primaryKeyFirstColumn(t) ==
    CASE t = "users" -> <<"id">>
      [] t = "products" -> <<"product_id">>
      [] t = "orders" -> <<"order_uuid">>
      [] t = "order_items" -> <<"order_uuid">>

\* PRIMARY KEY: the key columns in declaration order
primaryKey(t) ==
    CASE t = "users" -> <<"id">>
      [] t = "products" -> <<"product_id">>
      [] t = "orders" -> <<"order_uuid">>
      [] t = "order_items" -> <<"order_uuid", "product_id">>

\* AUTO_INCREMENT on the primary key
autoIncrement(t) == t \in {"users", "products"}

TableMeta(t) ==
    CASE t = "users" ->
            [pk |-> primaryKey(t), auto |-> autoIncrement(t),
             notNull |-> {"username", "email"},
             unique |-> {"username", "email"}, defaults |-> <<>>, fks |-> {}]
      [] t = "products" ->
            [pk |-> primaryKey(t), auto |-> autoIncrement(t),
             notNull |-> {"name", "price"},
             unique |-> {"sku"}, defaults |-> <<>>, fks |-> {}]
      [] t = "orders" ->
            [pk |-> primaryKey(t), auto |-> autoIncrement(t),
             notNull |-> {"customer_name", "total_amount"},
             unique |-> {}, defaults |-> [status |-> "pending"], fks |-> {}]
      [] t = "order_items" ->
            [pk |-> primaryKey(t), auto |-> autoIncrement(t),
             notNull |-> {"quantity", "unit_price"},
             unique |-> {}, defaults |-> [quantity |-> "1"],
             fks |-> {ForeignKey("order_uuid", "orders", "order_uuid"),
                      ForeignKey("product_id", "products", "product_id")}]

PkCols(t) == {TableMeta(t).pk[i] : i \in 1..Len(TableMeta(t).pk)}

\* The DECIMAL(10,2) columns.
decimalColumns(t) ==
    CASE t = "users" -> {}
      [] t = "products" -> {"price"}
      [] t = "orders" -> {"total_amount"}
      [] t = "order_items" -> {"unit_price"}

\* The text of a DECIMAL(10,2) value: the amount with two decimals, for an
\* amount written with at most two.
decimalText(text) ==
    LET parts == Split(text, ".")
        cents == IF Len(parts) = 1 THEN "" ELSE parts[2]
    IN  parts[1] \o "." \o cents \o (IF Len(cents) = 0 THEN "00"
                                     ELSE IF Len(cents) = 1 THEN "0" ELSE "")

\* The value of column c as the body gave it, whatever the column
columnValueAsPosted(t, c, v) == v

\* The value the database holds and returns for column c when v is
\* written to it: a DECIMAL comes back as the string of its text.
columnValue(t, c, v) ==
    IF c \in decimalColumns(t) THEN JsonString(decimalText(v.text)) ELSE v

\* The body as the columns of t hold it.
asColumns(t, body) == [c \in DOMAIN body |-> columnValue(t, c, body[c])]

(***************************************************************************)
(* The validation property of the table descriptors.                       *)
(***************************************************************************)

NoValidation == [uniqueFields |-> {}, conflictStatusCode |-> {}]
UniqueFields(fields, code) == [uniqueFields |-> fields, conflictStatusCode |-> {code}]

\* model/entities.js with conflictStatusCode: 400 on users
entitiesValidationBadRequest(t) ==
    CASE t = "users" -> UniqueFields({"username", "email"}, 400)
      [] t = "products" -> UniqueFields({"sku"}, 409)
      [] OTHER -> NoValidation

\* model/entities.js
entitiesValidation(t) ==
    CASE t = "users" -> UniqueFields({"username", "email"}, 409)
      [] t = "products" -> UniqueFields({"sku"}, 409)
      [] OTHER -> NoValidation

\* the test entities for custom primary keys
testEntitiesValidation(t) ==
    CASE t = "products" -> UniqueFields({"sku"}, 409)
      [] t = "orders" -> UniqueFields({"order_uuid"}, 409)
      [] OTHER -> NoValidation

DescriptorFiles == {"entities", "testEntities"}

validationOf(d, t) ==
    IF d = "entities" THEN entitiesValidation(t) ELSE testEntitiesValidation(t)

registeredTables(d) ==
    IF d = "entities" THEN Tables ELSE {"products", "orders", "order_items"}

DefaultConflictStatusCode == 409

\* The status of an error of the database that the descriptor does not map.
GenericErrorStatus == 400

conflictStatusCodeOf(d, t) ==
    IF validationOf(d, t).conflictStatusCode = {}
    THEN DefaultConflictStatusCode
    ELSE CHOOSE c \in validationOf(d, t).conflictStatusCode : TRUE

(***************************************************************************)
(* The engine: validation layer, executor and error mapper.                *)
(***************************************************************************)

\* The decimal form of an auto-increment value.
IdStr(n) == <<"1", "2", "3", "4", "5", "6", "7", "8", "9">>[n]

\* The row's primary-key tuple, in primary-key column order.
keyOf(t, row) == [i \in 1..Len(TableMeta(t).pk) |-> row[TableMeta(t).pk[i]]]

\* The rows whose primary-key tuple equals key.
matchKey(t, rows, key) ==
    {r \in rows : Len(key) = Len(TableMeta(t).pk) /\ keyOf(t, r) = key}

\* The fields among fs in which body has the value some row has.
collisions(rows, body, fs) ==
    {f \in fs : f \in DOMAIN body /\ \E r \in rows : f \in DOMAIN r /\ r[f] = body[f]}

\* The columns a create must give: NOT NULL columns without a default and
\* the primary key when the database does not assign it.
requiredColumns(t) ==
    (TableMeta(t).notNull \cup (IF TableMeta(t).auto THEN {} ELSE PkCols(t)))
    \ DOMAIN TableMeta(t).defaults

missingRequired(t, body) == {c \in requiredColumns(t) : c \notin DOMAIN body}

Result(status, error, fields, data, rows, ids) ==
    [status |-> status, error |-> error, fields |-> fields, data |-> data,
     store |-> rows, nextId |-> ids]

\* validateForWrite: a declared unique field that collides is a conflict and
\* outranks every other violation; a missing required column is invalid.
validateForWrite(d, t, op, rows, body) ==
    LET conflicts == collisions(rows, body, validationOf(d, t).uniqueFields)
        missing == IF op = "create" THEN missingRequired(t, body) ELSE {}
    IN  IF conflicts # {} THEN [kind |-> "conflict", fields |-> conflicts]
        ELSE IF missing # {} THEN [kind |-> "invalid", fields |-> missing]
        ELSE [kind |-> "valid", fields |-> {}]

\* The columns of the unique constraints of the database that row violates:
\* the insert fails with the unique-constraint error of the driver.
constraintViolations(t, rows, row) ==
    (IF matchKey(t, rows, keyOf(t, row)) # {} THEN PkCols(t) ELSE {})
    \cup collisions(rows, row, TableMeta(t).unique)

\* Whether every foreign key of row that has a value names a row of the
\* referenced table.
foreignKeysHold(t, st, row) ==
    \A fk \in TableMeta(t).fks :
        fk.col \in DOMAIN row =>
            \E p \in st[fk.table] : fk.ref \in DOMAIN p /\ p[fk.ref] = row[fk.col]

\* b1 and b2 together; b1 wins where both have a value
withDefaults(b1, b2) ==
    [f \in DOMAIN b1 \cup DOMAIN b2 |-> IF f \in DOMAIN b1 THEN b1[f] ELSE b2[f]]

\* The answer to a unique-constraint error of the database on fields: the
\* conflict of the descriptor when it lists one of them in uniqueFields, the
\* generic error otherwise.
constraintError(d, t, fields, st, ids) ==
    IF fields \cap validationOf(d, t).uniqueFields # {}
    THEN Result(conflictStatusCodeOf(d, t), "ConflictViolation", fields, {}, st, ids)
    ELSE Result(GenericErrorStatus, "Bad Request", {}, {}, st, ids)

\* The row an insert of body makes: the values as the columns hold them,
\* the defaults filled in and, for an auto-increment key, the next value of
\* the table.
newRow(t, body, ids) ==
    LET filled == withDefaults(asColumns(t, body), TableMeta(t).defaults)
    IN  IF TableMeta(t).auto
        THEN withDefaults([c \in PkCols(t) |-> IdStr(ids[t])], filled)
        ELSE filled

\* POST {route}
create(d, t, body, st, ids) ==
    LET v == validateForWrite(d, t, "create", st[t], body)
        row == newRow(t, body, ids)
    IN  IF v.kind = "conflict"
        THEN Result(conflictStatusCodeOf(d, t), "ConflictViolation", v.fields, {}, st, ids)
        ELSE IF v.kind = "invalid"
        THEN Result(400, "ValidationError", v.fields, {}, st, ids)
        ELSE IF constraintViolations(t, st[t], row) # {}
        THEN constraintError(d, t, constraintViolations(t, st[t], row), st, ids)
        ELSE IF ~foreignKeysHold(t, st, row)
        THEN Result(500, "Internal server error", {}, {}, st, ids)
        ELSE Result(201, "", {}, {row}, [st EXCEPT ![t] = @ \cup {row}],
                    IF TableMeta(t).auto THEN [ids EXCEPT ![t] = @ + 1] ELSE ids)

\* GET {route}/:id, GET {route}/:k1/:k2
getById(t, key, st, ids) ==
    IF matchKey(t, st[t], key) = {}
    THEN Result(404, "NotFoundError", {}, {}, st, ids)
    ELSE Result(200, "", {}, matchKey(t, st[t], key), st, ids)

\* ON DELETE CASCADE: the rows of the other tables that reference a deleted row
cascade(t, gone, st) ==
    [u \in Tables |->
        IF u = t THEN st[u] \ gone
        ELSE {r \in st[u] :
                ~\E fk \in TableMeta(u).fks, g \in gone :
                    /\ fk.table = t
                    /\ fk.col \in DOMAIN r /\ fk.ref \in DOMAIN g
                    /\ r[fk.col] = g[fk.ref]}]

\* DELETE {route}/:id answering 200 also when no row has the key
deleteByIdAlwaysOk(t, key, st, ids) ==
    Result(200, "", {}, matchKey(t, st[t], key), cascade(t, matchKey(t, st[t], key), st), ids)

\* DELETE {route}/:id
deleteById(t, key, st, ids) ==
    IF matchKey(t, st[t], key) = {}
    THEN Result(404, "NotFoundError", {}, {}, st, ids)
    ELSE Result(200, "", {}, matchKey(t, st[t], key),
                cascade(t, matchKey(t, st[t], key), st), ids)

\* PUT {route}/:id with a partial body that leaves the primary key alone
update(d, t, key, body, st, ids) ==
    LET old == matchKey(t, st[t], key)
        others == st[t] \ old
        v == validateForWrite(d, t, "update", others, body)
    IN  IF old = {} THEN Result(404, "NotFoundError", {}, {}, st, ids)
        ELSE LET row == withDefaults(asColumns(t, body), CHOOSE r \in old : TRUE)
             IN  IF v.kind = "conflict"
                 THEN Result(conflictStatusCodeOf(d, t), "ConflictViolation", v.fields, {}, st, ids)
                 ELSE IF collisions(others, row, TableMeta(t).unique) # {}
                 THEN constraintError(d, t, collisions(others, row, TableMeta(t).unique),
                                      st, ids)
                 ELSE Result(200, "", {}, {row}, [st EXCEPT ![t] = others \cup {row}], ids)

(***************************************************************************)
(* The REST requests on the table routes.  app.use('/api/users',           *)
(* validateUserData) stands before the routes of the engine.               *)
(***************************************************************************)

MaxRows == 3
MaxId == 2

totalRows(st) == Cardinality(st["users"]) + Cardinality(st["products"])
                 + Cardinality(st["orders"]) + Cardinality(st["order_items"])

\* Every body over some of the columns of samples, a function from column
\* to the set of its sample values.
RECURSIVE bodiesOver(_, _)
bodiesOver(cols, samples) ==
    IF cols = {} THEN {<<>>}
    ELSE LET c == CHOOSE x \in cols : TRUE
             rest == bodiesOver(cols \ {c}, samples)
         IN  rest \cup {withDefaults([f \in {c} |-> v], b) : v \in samples[c], b \in rest}

UserBodySamples ==
    bodiesOver({"username", "email"},
               [username |-> {"admin", "bob_1"},
                email |-> {"a@x.com", "b@x.com", "t@gmail.com"}])

\* Every product body of the model carries a price, every order body a
\* total_amount and every order item body a unit_price, given as numbers
\* with two decimals, none and one.
ProductBodySamples ==
    {withDefaults(b, [price |-> JsonNumber("999.99")]) :
        b \in bodiesOver({"name", "sku"}, [name |-> {"Laptop"}, sku |-> {"LAP001"}])}

OrderBodySamples ==
    {withDefaults(b, [total_amount |-> JsonNumber("1300")]) :
        b \in bodiesOver({"order_uuid", "customer_name"},
                         [order_uuid |-> {"abc-123", "2"}, customer_name |-> {"John Doe"}])}

OrderItemBodySamples ==
    {withDefaults(b, [unit_price |-> JsonNumber("999.9")]) :
        b \in bodiesOver({"order_uuid", "product_id", "quantity"},
                         [order_uuid |-> {"abc-123", "2"}, product_id |-> {"1", "2"},
                          quantity |-> {"5"}])}

\* The bodies of a POST on the route of table t.
BodySamples ==
    [users |-> UserBodySamples, products |-> ProductBodySamples,
     orders |-> OrderBodySamples, order_items |-> OrderItemBodySamples]

\* The bodies of a PUT: they leave the primary key alone.
UpdateSamples == [t \in Tables |-> {b \in BodySamples[t] : DOMAIN b \cap PkCols(t) = {}}]

KeyParts == {"1", "2", "abc-123"}

\* The route parameters after {route}/: as many as the primary key has
\* columns, and one request with one too many or one too few.
KeySamples ==
    [t \in Tables |->
        IF Len(TableMeta(t).pk) = 1
        THEN {<<a>> : a \in KeyParts} \cup {<<"2", "1">>}
        ELSE {<<a, b>> : a \in KeyParts, b \in KeyParts} \cup {<<"2">>}]

NoResponse ==
    [op |-> "none", table |-> "", key |-> <<>>, body |-> <<>>, status |-> 0,
     error |-> "", fields |-> {}, errors |-> <<>>, data |-> {},
     pre |-> [t \in Tables |-> {}]]

Response(op, t, key, body, r, pre) ==
    [op |-> op, table |-> t, key |-> key, body |-> body, status |-> r.status,
     error |-> r.error, fields |-> r.fields, errors |-> <<>>, data |-> r.data,
     pre |-> pre]

Rejected(op, t, key, body, mw, pre) ==
    [op |-> op, table |-> t, key |-> key, body |-> body, status |-> mw.status,
     error |-> "Validation failed", fields |-> {}, errors |-> mw.errors, data |-> {},
     pre |-> pre]

\* The middleware in front of the routes of table t.
middlewareOf(t, method, body) ==
    IF t = "users" THEN validateUserData(method, body) ELSE CallNext

\* One request: the middleware, then, when it calls next(), the engine.
Handle(op, t, key, body, method, r) ==
    /\ resp = NoResponse
    /\ t \in registeredTables(descr)
    /\ IF middlewareOf(t, method, body).next
       THEN /\ store' = r.store
            /\ nextId' = r.nextId
            /\ resp' = Response(op, t, key, body, r, store)
       ELSE /\ resp' = Rejected(op, t, key, body, middlewareOf(t, method, body), store)
            /\ UNCHANGED <<store, nextId>>
    /\ UNCHANGED <<descr, notCrudVars>>

CrudInit ==
    /\ descr \in DescriptorFiles
    /\ store = [t \in Tables |-> {}]
    /\ nextId = [t \in Tables |-> 1]
    /\ resp = NoResponse

Post(t, body) ==
    /\ totalRows(store) < MaxRows
    /\ nextId[t] <= MaxId
    /\ Handle("create", t, <<>>, body, "POST", create(descr, t, body, store, nextId))

Get(t, key) ==
    Handle("get", t, key, <<>>, "GET", getById(t, key, store, nextId))

Put(t, key, body) ==
    Handle("update", t, key, body, "PUT", update(descr, t, key, body, store, nextId))

Delete(t, key) ==
    Handle("delete", t, key, <<>>, "DELETE", deleteById(t, key, store, nextId))

\* The response is sent and the request is over.
Done ==
    /\ resp # NoResponse
    /\ resp' = NoResponse
    /\ UNCHANGED <<descr, store, nextId, notCrudVars>>

CrudNext ==
    \/ \E t \in Tables : \E b \in BodySamples[t] : Post(t, b)
    \/ \E t \in Tables : \E k \in KeySamples[t] : Get(t, k)
    \/ \E t \in Tables : \E k \in KeySamples[t] : \E b \in UpdateSamples[t] : Put(t, k, b)
    \/ \E t \in Tables : \E k \in KeySamples[t] : Delete(t, k)
    \/ Done

(***************************************************************************)
(* The engine's bulk replace of a belongsToMany association,               *)
(* PUT {route}/:id/{as} with {roleIds}: one database transaction per       *)
(* request that removes the links of the owner and inserts the new ones.   *)
(* The transaction runs at the default isolation of the database           *)
(* (new Sequelize(...) in index.js sets none); requests interleave at      *)
(* every statement.  The through table has the pair (owner, role) as its   *)
(* key.                                                                    *)
(***************************************************************************)

MaxRole == 3

Owners == {1, 2}
Roles == 1..MaxRole
ReplaceRequests == {1, 2}

\* DB_DIALECT: the databases setup-db.sh and index.js provide for.
LinkDialects == {"sqlite", "mysql", "postgres"}

\* A row of the through table of an owner: the role and the request that
\* inserted the row, 0 for a row that was there at the start.
Link(role, by) == [role |-> role, by |-> by]

rolesOf(rows) == {l.role : l \in rows}

InitialLinks == [o \in Owners |-> {Link(1, 0), Link(2, 0)}]

NoTx == [state |-> "idle", owner |-> 0, target |-> {}, seen |-> {}, didDelete |-> FALSE,
         deleted |-> {}, inserted |-> {}, status |-> 0]

AssocInit ==
    /\ links = InitialLinks
    /\ tx = [r \in ReplaceRequests |-> NoTx]
    /\ sqlDialect \in LinkDialects

\* The transactions other than r that have written links of owner and have
\* neither committed nor rolled back: they hold the locks of what they wrote.
writersOf(owner, r) ==
    {q \in ReplaceRequests \ {r} :
        tx[q].owner = owner /\ tx[q].state \in {"open", "deleting"} /\ tx[q].didDelete}

\* A DELETE at READ COMMITTED removes the rows its statement saw when it
\* started, less the ones another transaction removed while it waited.
readsCommittedAtStart(d) == d = "postgres"

\* A DELETE that waits for a lock removes the rows committed by the time it
\* goes on: InnoDB locks the range of the owner, SQLite the database.
locksRange(d) == d \in {"sqlite", "mysql"}

\* PUT {route}/:id/{as} arrives: the transaction of the request begins.
BeginReplace(r, owner, roleIds) ==
    /\ tx[r].state = "idle"
    /\ tx' = [tx EXCEPT ![r] = [NoTx EXCEPT !.state = "open", !.owner = owner,
                                            !.target = roleIds]]
    /\ UNCHANGED <<links, sqlDialect, notAssocVars>>

\* The DELETE of the links of the owner starts: it sees the committed links.
StartDelete(r) ==
    /\ tx[r].state = "open"
    /\ ~tx[r].didDelete
    /\ tx' = [tx EXCEPT ![r].state = "deleting", ![r].seen = links[tx[r].owner]]
    /\ UNCHANGED <<links, sqlDialect, notAssocVars>>

\* The rows the DELETE of r removes once no lock holds it back.
rowsDeleted(d, r) ==
    IF readsCommittedAtStart(d)
    THEN tx[r].seen \cap links[tx[r].owner]
    ELSE links[tx[r].owner]

\* Whether the DELETE of r has to wait for another transaction.
deleteWaits(d, r) ==
    IF locksRange(d)
    THEN writersOf(tx[r].owner, r) # {}
    ELSE \E q \in writersOf(tx[r].owner, r) : tx[q].deleted \cap tx[r].seen # {}

\* The DELETE of the links of the owner, inside the transaction.
DeleteOldLinks(r) ==
    /\ tx[r].state = "deleting"
    /\ ~deleteWaits(sqlDialect, r)
    /\ tx' = [tx EXCEPT ![r].state = "open", ![r].didDelete = TRUE,
                        ![r].deleted = rowsDeleted(sqlDialect, r)]
    /\ UNCHANGED <<links, sqlDialect, notAssocVars>>

\* The INSERT of one new link, inside the transaction.  It waits while
\* another transaction holds an uncommitted row with the same key; a
\* committed row with the same key that the transaction has not removed
\* fails it, and the transaction rolls back.
InsertLink(r, role) ==
    /\ tx[r].state = "open"
    /\ tx[r].didDelete
    /\ role \in tx[r].target \ tx[r].inserted
    /\ \A q \in writersOf(tx[r].owner, r) : role \notin tx[q].inserted
    /\ IF role \in rolesOf(links[tx[r].owner] \ tx[r].deleted)
       THEN tx' = [tx EXCEPT ![r].state = "rolledBack", ![r].status = 500]
       ELSE tx' = [tx EXCEPT ![r].inserted = @ \cup {role}]
    /\ UNCHANGED <<links, sqlDialect, notAssocVars>>

\* A statement of the request fails: the transaction rolls back and the
\* request is answered 500.
FailReplace(r) ==
    /\ tx[r].state \in {"open", "deleting"}
    /\ tx' = [tx EXCEPT ![r].state = "rolledBack", ![r].status = 500]
    /\ UNCHANGED <<links, sqlDialect, notAssocVars>>

\* Commit: the rows the transaction removed go and the rows it inserted
\* come, together, and the request is answered 200.
CommitReplace(r) ==
    /\ tx[r].state = "open"
    /\ tx[r].didDelete
    /\ tx[r].inserted = tx[r].target
    /\ links' = [links EXCEPT ![tx[r].owner] =
                      (@ \ tx[r].deleted) \cup {Link(role, r) : role \in tx[r].inserted}]
    /\ tx' = [tx EXCEPT ![r].state = "committed", ![r].status = 200]
    /\ UNCHANGED <<sqlDialect, notAssocVars>>

AssocNext ==
    \/ \E r \in ReplaceRequests : \E o \in Owners : \E ids \in SUBSET Roles :
          BeginReplace(r, o, ids)
    \/ \E r \in ReplaceRequests : StartDelete(r)
    \/ \E r \in ReplaceRequests : DeleteOldLinks(r)
    \/ \E r \in ReplaceRequests : \E role \in Roles : InsertLink(r, role)
    \/ \E r \in ReplaceRequests : FailReplace(r)
    \/ \E r \in ReplaceRequests : CommitReplace(r)

(***************************************************************************)
(* Error responses: the catch blocks of the auth routes, of                *)
(* requireOwnership and the error-handling middleware of the blog example. *)
(* An exception carries a message and a stack; a response body is the      *)
(* JSON object sent, in which a property whose value is undefined is       *)
(* absent.                                                                 *)
(***************************************************************************)

Exception(message) == [message |-> message, stack |-> "Error: " \o message \o "\n    at Query.run"]

\* routes/auth.js: the five catch blocks differ in the two fixed strings only.
AuthRoutes == {"register", "login", "refresh", "profile", "profileUpdate"}

authErrorText(route) ==
    CASE route = "register" -> [error |-> "Registration failed",
                                message |-> "An error occurred during registration"]
      [] route = "login" -> [error |-> "Login failed",
                             message |-> "An error occurred during login"]
      [] route = "refresh" -> [error |-> "Token refresh failed",
                               message |-> "An error occurred while refreshing the token"]
      [] route = "profile" -> [error |-> "Profile fetch failed",
                               message |-> "An error occurred while fetching user profile"]
      [] route = "profileUpdate" -> [error |-> "Profile update failed",
                                     message |-> "An error occurred while updating profile"]

authRouteCatch(route, nodeEnv, error) ==
    IF nodeEnv = "development"
    THEN [status |-> 500,
          body |-> [error |-> authErrorText(route).error,
                    message |-> authErrorText(route).message,
                    details |-> error.message]]
    ELSE [status |-> 500,
          body |-> [error |-> authErrorText(route).error,
                    message |-> authErrorText(route).message]]

\* authorization-examples.js, requireOwnership: catch (error)
requireOwnershipCatch(nodeEnv, error) ==
    [status |-> 500,
     body |-> [error |-> "Authorization check failed", message |-> error.message]]

\* examples/blog-api.js: app.use((error, req, res, next) => ...)
blogErrorMiddleware(nodeEnv, error) ==
    [status |-> 500,
     body |-> [error |-> "Something went wrong!", message |-> error.message]]

ErrorHandlers == AuthRoutes \cup {"requireOwnership", "blogErrorMiddleware"}

\* NODE_ENV; "" is the variable not set.
NodeEnvs == {"", "development", "production", "test"}

MessageSamples == {"connect ECONNREFUSED 127.0.0.1:3306",
                   "SQLITE_ERROR: no such table: users",
                   "Duplicate entry 'a@x.com' for key 'users.email'",
                   "Cannot read properties of undefined (reading 'id')"}

NoBody == [status |-> 0, body |-> <<>>]

ErrInit ==
    /\ ereq \in [handler : ErrorHandlers, nodeEnv : NodeEnvs,
                 errors : {<<Exception(m1), Exception(m2)>> :
                              m1 \in MessageSamples, m2 \in MessageSamples}]
    /\ eout = <<NoBody, NoBody>>

\* Request i fails in an auth route.
AuthRouteFails(i) ==
    /\ ereq.handler \in AuthRoutes
    /\ eout[i] = NoBody
    /\ eout' = [eout EXCEPT ![i] = authRouteCatch(ereq.handler, ereq.nodeEnv, ereq.errors[i])]
    /\ UNCHANGED <<ereq, notErrVars>>

\* Request i fails in the query of requireOwnership.
OwnershipCheckFails(i) ==
    /\ ereq.handler = "requireOwnership"
    /\ eout[i] = NoBody
    /\ eout' = [eout EXCEPT ![i] = requireOwnershipCatch(ereq.nodeEnv, ereq.errors[i])]
    /\ UNCHANGED <<ereq, notErrVars>>

\* Request i fails in a route of the blog example.
BlogRouteFails(i) ==
    /\ ereq.handler = "blogErrorMiddleware"
    /\ eout[i] = NoBody
    /\ eout' = [eout EXCEPT ![i] = blogErrorMiddleware(ereq.nodeEnv, ereq.errors[i])]
    /\ UNCHANGED <<ereq, notErrVars>>

ErrNext ==
    \/ \E i \in {1, 2} : AuthRouteFails(i)
    \/ \E i \in {1, 2} : OwnershipCheckFails(i)
    \/ \E i \in {1, 2} : BlogRouteFails(i)

(***************************************************************************)
(* Association resolution at registration: pass 1 registers the entities   *)
(* in the order they are declared, pass 2 resolves the association         *)
(* references between them.                                                *)
(***************************************************************************)

Assoc(type, target, foreignKey, as) ==
    [type |-> type, target |-> target, foreignKey |-> foreignKey, as |-> as]

Entity(name, associations) == [name |-> name, associations |-> associations]

\* examples: the e-commerce entities, in the order of the file
ecommerceEntities ==
    << Entity("customers", <<>>),
       Entity("products", << Assoc("belongsTo", "categories", "categoryId", "category"),
                             Assoc("hasMany", "order_items", "productId", "orderItems") >>),
       Entity("categories", << Assoc("hasMany", "products", "categoryId", "products") >>),
       Entity("orders", << Assoc("belongsTo", "customers", "customerId", "customer"),
                           Assoc("hasMany", "order_items", "orderId", "items") >>),
       Entity("order_items", << Assoc("belongsTo", "orders", "orderId", "order"),
                                Assoc("belongsTo", "products", "productId", "product") >>) >>

\* docker/README.md: the blog tables, in the order of the file
blogTableEntities ==
    << Entity("users", << Assoc("hasMany", "posts", "userId", "posts"),
                          Assoc("hasMany", "comments", "userId", "comments") >>),
       Entity("categories", << Assoc("hasMany", "posts", "categoryId", "posts") >>),
       Entity("posts", << Assoc("belongsTo", "users", "userId", "author"),
                          Assoc("belongsTo", "categories", "categoryId", "category"),
                          Assoc("hasMany", "comments", "postId", "comments") >>),
       Entity("comments", << Assoc("belongsTo", "posts", "postId", "post"),
                             Assoc("belongsTo", "users", "userId", "user"),
                             Assoc("belongsTo", "comments", "parentId", "parent"),
                             Assoc("hasMany", "comments", "parentId", "replies") >>) >>

\* The e-commerce file with the categories entity left out.
ecommerceWithoutCategories ==
    SubSeq(ecommerceEntities, 1, 2) \o SubSeq(ecommerceEntities, 4, 5)

AssocFiles == {"ecommerce", "blog", "ecommerceWithoutCategories", "blogWithoutParentId"}

declared(file) ==
    CASE file = "ecommerce" -> ecommerceEntities
      [] file \in {"blog", "blogWithoutParentId"} -> blogTableEntities
      [] file = "ecommerceWithoutCategories" -> ecommerceWithoutCategories

\* The foreign-key columns schema discovery finds on a table.
fkColumns(file, table) ==
    CASE table = "products" -> {"categoryId"}
      [] table = "orders" -> {"customerId"}
      [] table = "order_items" -> {"orderId", "productId"}
      [] table = "posts" -> {"userId", "categoryId"}
      [] table = "comments" ->
            IF file = "blogWithoutParentId" THEN {"postId", "userId"}
            ELSE {"postId", "userId", "parentId"}
      [] OTHER -> {}

\* The table that holds the foreign key of an association.
keyTable(owner, a) == IF a.type = "belongsTo" THEN owner ELSE a.target

\* The entities the associations of the i-th registered entity may refer to,
\* when they are resolved as soon as the entity is registered
visibleTargetsOnePass(reg, i) == {reg[k].name : k \in 1..i}

\* The entities the associations of the i-th registered entity may refer to:
\* pass 2 runs when all entities are registered.
visibleTargets(reg, i) == {reg[k].name : k \in 1..Len(reg)}

validAssociation(file, reg, i, a) ==
    /\ a.target \in visibleTargets(reg, i)
    /\ a.foreignKey \in fkColumns(file, keyTable(reg[i].name, a))

Resolved(owner, a) ==
    [type |-> a.type, owner |-> owner, target |-> a.target,
     foreignKey |-> a.foreignKey, as |-> a.as, keyTable |-> keyTable(owner, a)]

Unresolved == [ok |-> FALSE, error |-> "", associations |-> {}]

\* Pass 2: an association that cannot be resolved fails the registration,
\* otherwise every entity gets its resolved associations.
resolveAssociations(file, reg) ==
    IF \E i \in 1..Len(reg) : \E j \in 1..Len(reg[i].associations) :
            ~validAssociation(file, reg, i, reg[i].associations[j])
    THEN [ok |-> FALSE, error |-> "InvalidAssociationError", associations |-> {}]
    ELSE [ok |-> TRUE, error |-> "",
          associations |->
              {Resolved(reg[i].name, reg[i].associations[j]) :
                  <<i, j>> \in {q \in (1..Len(reg)) \X (1..4) :
                                  q[2] <= Len(reg[q[1]].associations)}}]

\* The orders the entities of a file can be declared in.
Orders(file) ==
    LET n == Len(declared(file))
    IN  {p \in [1..n -> 1..n] : \A i, j \in 1..n : p[i] = p[j] => i = j}

\* The descriptors of a file declared in order p.
inOrder(file, p) == [i \in 1..Len(declared(file)) |-> declared(file)[p[i]]]

ResolveInit ==
    /\ decl \in UNION {{[file |-> f, order |-> p] : p \in Orders(f)} : f \in AssocFiles}
    /\ known = <<>>
    /\ resolved = Unresolved

\* Pass 1 registers the next declared entity.
RegisterDescriptor ==
    /\ Len(known) < Len(decl.order)
    /\ known' = Append(known, inOrder(decl.file, decl.order)[Len(known) + 1])
    /\ UNCHANGED <<decl, resolved, notResolveVars>>

\* Pass 2 runs once every entity is registered.
ResolveAssociations ==
    /\ Len(known) = Len(decl.order)
    /\ resolved = Unresolved
    /\ resolved' = resolveAssociations(decl.file, known)
    /\ UNCHANGED <<decl, known, notResolveVars>>

ResolveNext ==
    \/ RegisterDescriptor
    \/ ResolveAssociations

(***************************************************************************)
(* routes/auth.js, POST /auth/register, on the MySQL schema: concurrent    *)
(* requests interleave at every await of the handler.                      *)
(***************************************************************************)

\* The JSON values a body can carry as role: a string, null or an array of
\* strings; an omitted role is a body without the field.
Str(s) == [kind |-> "string", items |-> <<s>>]
Null == [kind |-> "null", items |-> <<>>]
Arr(items) == [kind |-> "array", items |-> items]

\* const { username, email, password, role = 'user' } = req.body
roleOf(body) == IF Has(body, "role") THEN body.role ELSE Str("user")

\* role === 'admin' ? 'user' : role
roleReplacement(role) == IF role = Str("admin") THEN Str("user") ELSE role

\* The SQL values a named replacement is written as: a string as one
\* literal, null as NULL, an array as the list of its elements.
SqlNull == [null |-> TRUE, text |-> ""]
SqlString(s) == [null |-> FALSE, text |-> s]

sqlValues(v) ==
    CASE v.kind = "string" -> <<SqlString(v.items[1])>>
      [] v.kind = "null" -> <<SqlNull>>
      [] v.kind = "array" -> [i \in 1..Len(v.items) |-> SqlString(v.items[i])]

LowerAlphabet == "abcdefghijklmnopqrstuvwxyz"
UpperAlphabet == "ABCDEFGHIJKLMNOPQRSTUVWXYZ"

foldChar(c) ==
    IF \E i \in 1..Len(UpperAlphabet) : SubSeq(UpperAlphabet, i, i) = c
    THEN LET i == CHOOSE k \in 1..Len(UpperAlphabet) : SubSeq(UpperAlphabet, k, k) = c
         IN  SubSeq(LowerAlphabet, i, i)
    ELSE c

\* Equality of two strings under a case-insensitive collation.
sameIgnoringCase(s, t) ==
    /\ Len(s) = Len(t)
    /\ \A i \in 1..Len(s) : foldChar(SubSeq(s, i, i)) = foldChar(SubSeq(t, i, i))

\* role ENUM('user', 'admin') DEFAULT 'user': the members in the order of
\* their indexes
roleMembers == <<"user", "admin">>

isDigits(text) ==
    /\ Len(text) > 0
    /\ \A i \in 1..Len(text) : SubSeq(text, i, i) \in DigitChars

\* The number a string of digits is read as.
RECURSIVE digitsValue(_)
digitsValue(text) ==
    IF Len(text) = 0 THEN 0
    ELSE 10 * digitsValue(SubSeq(text, 1, Len(text) - 1))
         + (IndexOf("0123456789", SubSeq(text, Len(text), Len(text))) - 1)

\* What the role column stores for a value under the strict SQL mode: NULL
\* for NULL, the member the value names whatever its letter case, for a
\* number in quotes that names no member the member with that index, and an
\* error for every other value.
roleColumn(value) ==
    IF value.null THEN [ok |-> TRUE, role |-> "NULL"]
    ELSE IF \E i \in 1..Len(roleMembers) : sameIgnoringCase(value.text, roleMembers[i])
    THEN [ok |-> TRUE,
          role |-> roleMembers[CHOOSE i \in 1..Len(roleMembers) :
                                   sameIgnoringCase(value.text, roleMembers[i])]]
    ELSE IF isDigits(value.text) /\ digitsValue(value.text) \in 1..Len(roleMembers)
    THEN [ok |-> TRUE, role |-> roleMembers[digitsValue(value.text)]]
    ELSE [ok |-> FALSE, role |-> ""]

MinPasswordLen == 8

RegisterRequests == {1, 2}

UsernameSamplesReg == {"alice", "bob"}
EmailSamplesReg == {"a@x.com", "b@x.com"}
PasswordSamples == {"short", "password1"}
RoleSamples == {Str("user"), Str("admin"), Str("ADMIN"), Str("moderator"), Str("2"), Str("3"),
                Null, Arr(<<"admin">>), Arr(<<"user", "admin">>)}

RegisterBodies ==
    {[username |-> u, email |-> e, password |-> p] :
        u \in UsernameSamplesReg \cup {"", "ROOT"}, e \in EmailSamplesReg,
        p \in PasswordSamples \cup {""}}
    \cup {[username |-> u, email |-> e, password |-> "password1", role |-> r] :
        u \in UsernameSamplesReg, e \in EmailSamplesReg, r \in RoleSamples}

\* The table before the requests: one administrator.
InitialUsers == <<[id |-> 1, username |-> "root", email |-> "root@x.com", role |-> "admin"]>>

\* What the database has done with the statement a request waits for and
\* the handler has not been given yet: nothing, the rows of a SELECT (the
\* indexes found by the existence check, the row read by id), the id of an
\* inserted row, or an error.
Reply(state, found, id, user) == [state |-> state, found |-> found, id |-> id, user |-> user]

NoReply == Reply("none", {}, 0, {})

NoRegister == [pc |-> "idle", body |-> <<>>, status |-> 0, error |-> "", message |-> "",
               id |-> 0, role |-> "", reply |-> NoReply]

RegisterInit ==
    /\ users = InitialUsers
    /\ sequelizeSet \in BOOLEAN
    /\ regs = [r \in RegisterRequests |-> NoRegister]

Answered(r, status, error) ==
    [r EXCEPT !.pc = "done", !.status = status, !.error = error, !.reply = NoReply]

RequiredMessage == "Username, email, and password are required"
PasswordMessage == "Password must be at least 8 characters long"

\* The basic validation with the password length tested first
basicValidationLengthFirst(body) ==
    IF Len(body.password) < MinPasswordLen THEN PasswordMessage
    ELSE IF body.username = "" \/ body.email = "" \/ body.password = "" THEN RequiredMessage
    ELSE ""

\* The message of the 400 answer, "" when the body passes: the required
\* fields first, then the password length.
basicValidation(body) ==
    IF body.username = "" \/ body.email = "" \/ body.password = "" THEN RequiredMessage
    ELSE IF Len(body.password) < MinPasswordLen THEN PasswordMessage
    ELSE ""

\* The request arrives: the required fields and the password length, then
\* req.app.locals.sequelize, without which the request is answered 500, and
\* the existence SELECT is issued.
ReceiveRegister(r, body) ==
    /\ regs[r].pc = "idle"
    /\ regs' = [regs EXCEPT ![r] =
          IF basicValidation(body) # ""
          THEN Answered([regs[r] EXCEPT !.body = body, !.message = basicValidation(body)],
                        400, "Validation failed")
          ELSE IF ~sequelizeSet
          THEN Answered([regs[r] EXCEPT !.body = body,
                                        !.message = "Database connection not available"],
                        500, "Database error")
          ELSE [regs[r] EXCEPT !.pc = "check", !.body = body]]
    /\ UNCHANGED <<users, sequelizeSet, notRegisterVars>>

\* The rows with the username or the e-mail address of the body: the "="
\* of the SELECT and the UNIQUE indexes compare under the collation of the
\* columns, which does not tell letter cases apart.
existingUser(table, body) ==
    {i \in 1..Len(table) :
        \/ sameIgnoringCase(table[i].username, body.username)
        \/ sameIgnoringCase(table[i].email, body.email)}

\* The database executes SELECT id FROM users WHERE username = :username OR
\* email = :email of request r: it finds the rows the table has then.
ExecuteCheck(r) ==
    /\ regs[r].pc = "check"
    /\ regs[r].reply = NoReply
    /\ regs' = [regs EXCEPT ![r].reply = Reply("rows", existingUser(users, regs[r].body), 0, {})]
    /\ UNCHANGED <<users, sequelizeSet, notRegisterVars>>

\* The rows of the existence SELECT are given to the handler: with a row
\* it answers 409, without one it calls hashPassword.
CheckExistingUser(r) ==
    /\ regs[r].pc = "check"
    /\ regs[r].reply.state = "rows"
    /\ regs' = [regs EXCEPT ![r] =
          IF regs[r].reply.found # {}
          THEN Answered(regs[r], 409, "User already exists")
          ELSE [regs[r] EXCEPT !.pc = "hash", !.reply = NoReply]]
    /\ UNCHANGED <<users, sequelizeSet, notRegisterVars>>

\* await hashPassword(password) has resolved: the INSERT is issued.
HashPassword(r) ==
    /\ regs[r].pc = "hash"
    /\ regs' = [regs EXCEPT ![r].pc = "insert"]
    /\ UNCHANGED <<users, sequelizeSet, notRegisterVars>>

\* The database executes INSERT INTO users (username, email, password, role,
\* ...) of request r: the statement fails on a wrong number of values, on a
\* value the role column rejects and on the UNIQUE constraints of username
\* and email; otherwise the row is in the table from now on.
ExecuteInsert(r) ==
    /\ regs[r].pc = "insert"
    /\ regs[r].reply = NoReply
    /\ LET values == sqlValues(roleReplacement(roleOf(regs[r].body)))
           stored == roleColumn(values[1])
       IN  IF Len(values) # 1 \/ ~stored.ok \/ existingUser(users, regs[r].body) # {}
           THEN /\ regs' = [regs EXCEPT ![r].reply = Reply("failed", {}, 0, {})]
                /\ UNCHANGED users
           ELSE /\ users' = Append(users, [id |-> Len(users) + 1,
                                           username |-> regs[r].body.username,
                                           email |-> regs[r].body.email,
                                           role |-> stored.role])
                /\ regs' = [regs EXCEPT ![r].reply = Reply("inserted", {}, Len(users) + 1, {})]
    /\ UNCHANGED <<sequelizeSet, notRegisterVars>>

\* The result of the INSERT is given to the handler: the failure is caught
\* and answered 500; with the id of the new row the SELECT by id is issued.
InsertUser(r) ==
    /\ regs[r].pc = "insert"
    /\ regs[r].reply.state \in {"inserted", "failed"}
    /\ regs' = [regs EXCEPT ![r] =
          IF regs[r].reply.state = "failed"
          THEN Answered(regs[r], 500, "Registration failed")
          ELSE [regs[r] EXCEPT !.pc = "select", !.id = regs[r].reply.id, !.reply = NoReply]]
    /\ UNCHANGED <<users, sequelizeSet, notRegisterVars>>

\* The database executes SELECT id, username, email, role FROM users WHERE
\* id = :id of request r.
ExecuteSelect(r) ==
    /\ regs[r].pc = "select"
    /\ regs[r].reply = NoReply
    /\ regs' = [regs EXCEPT ![r].reply =
          Reply("rows", {}, 0, {users[i] : i \in {k \in 1..Len(users) : users[k].id = regs[r].id}})]
    /\ UNCHANGED <<users, sequelizeSet, notRegisterVars>>

\* The created user is given to the handler: it generates the tokens and
\* answers 201; without a row generateTokens throws and the catch answers.
RespondRegistered(r) ==
    /\ regs[r].pc = "select"
    /\ regs[r].reply.state = "rows"
    /\ regs' = [regs EXCEPT ![r] =
          IF regs[r].reply.user = {}
          THEN Answered(regs[r], 500, "Registration failed")
          ELSE [Answered(regs[r], 201, "") EXCEPT
                    !.role = (CHOOSE u \in regs[r].reply.user : TRUE).role]]
    /\ UNCHANGED <<users, sequelizeSet, notRegisterVars>>

RegisterNext ==
    \/ \E r \in RegisterRequests : \E body \in RegisterBodies : ReceiveRegister(r, body)
    \/ \E r \in RegisterRequests : ExecuteCheck(r)
    \/ \E r \in RegisterRequests : CheckExistingUser(r)
    \/ \E r \in RegisterRequests : HashPassword(r)
    \/ \E r \in RegisterRequests : ExecuteInsert(r)
    \/ \E r \in RegisterRequests : InsertUser(r)
    \/ \E r \in RegisterRequests : ExecuteSelect(r)
    \/ \E r \in RegisterRequests : RespondRegistered(r)

(***************************************************************************)
(* routes/auth.js: POST /auth/refresh, PUT /auth/me and POST /auth/logout  *)
(* for a client that holds the two tokens of a login, while the users      *)
(* table changes and the tokens expire.                                    *)
(***************************************************************************)

\* jwt.verify(refresh_token, JWT_SECRET) does not throw: no issuer or
\* audience is asked for.
RefreshVerifies(token) == token.signed /\ ~token.expired

\* A response with the request it answers: the token the request carried,
\* the rows of users the request read, whether its handler threw and, for a
\* refresh, the requests the rate limiter had counted when it arrived.
SessionResponse(op, sent, status, error, tokens, read) ==
    [op |-> op, sent |-> sent, status |-> status, error |-> error, tokens |-> tokens,
     read |-> read, threw |-> FALSE, nth |-> 0]

\* catch (error) of an auth route: 500 with the fixed text of the route
caught(route, op, sent) ==
    [SessionResponse(op, sent, authRouteCatch(route, "", Exception("")).status,
                     authErrorText(route).error, {}, {}) EXCEPT !.threw = TRUE]

\* The response r to a refresh that arrived when the limiter had counted n.
arrivedAt(r, n) == [r EXCEPT !.nth = n]

\* What the part of a handler before its first await decides: the status
\* and error of an answer sent at once, status 0 when the handler goes on.
Decision(status, error, id) == [status |-> status, error |-> error, id |-> id]

\* POST /auth/refresh up to the query, without the test of decoded.type
verifyRefreshAnyType(presented) ==
    IF presented = {} THEN Decision(400, "Validation failed", 0)
    ELSE LET token == CHOOSE t \in presented : TRUE
         IN  IF ~RefreshVerifies(token)
             THEN Decision(401, "Invalid refresh token", 0)
             ELSE Decision(0, "", token.payload.id)

\* POST /auth/refresh up to the query: presented is the refresh_token of
\* the body, {} when the body has none.
verifyRefresh(presented) ==
    IF presented = {} THEN Decision(400, "Validation failed", 0)
    ELSE LET token == CHOOSE t \in presented : TRUE
         IN  IF ~RefreshVerifies(token)
             THEN Decision(401, "Invalid refresh token", 0)
             ELSE IF ~("type" \in DOMAIN token.payload /\ token.payload.type = "refresh")
             THEN Decision(401, "Invalid token type", 0)
             ELSE Decision(0, "", token.payload.id)

\* SELECT id, username, email, role FROM users WHERE id = :id LIMIT 1
userById(table, id) ==
    {[id |-> u.id, username |-> u.username, email |-> u.email, role |-> u.role] :
        u \in {x \in table : x.id = id}}

\* POST /auth/refresh after the query: found is the row the query returned.
answerRefresh(sent, found) ==
    IF found = {}
    THEN SessionResponse("refresh", sent, 401, "User not found", {}, found)
    ELSE SessionResponse("refresh", sent, 200, "", {generateTokens(CHOOSE u \in found : TRUE)},
                         found)

\* bcrypt.hash(password, saltRounds)
hashPassword(password) == "bcrypt:" \o password

InitialAccounts ==
    {[id |-> u.id, username |-> u.username, email |-> u.email, role |-> u.role,
      password |-> hashPassword("secret123")] : u \in UserSamplesAuth}

NoSessionResponse == SessionResponse("none", {}, 0, "", {}, {})

\* The request that waits for the database: its route, where its handler
\* stands, the token it carried, the id it asks for, its body, the rows it
\* has read, whether its statement failed and, for a refresh, the requests
\* the rate limiter had counted when it arrived.  The client has one such
\* request at a time.
Waiting(route, at, sent, id, body, read, failed) ==
    [route |-> route, pc |-> at, sent |-> sent, id |-> id, body |-> body, read |-> read,
     failed |-> failed, nth |-> 0]

NoBodyGiven == [email |-> {}, password |-> {}]

NotWaiting == Waiting("", "idle", {}, 0, NoBodyGiven, {}, FALSE)

\* generalRateLimit: max 20 requests in a window of 15 minutes, one counter
\* for POST /auth/refresh, GET /auth/me and PUT /auth/me.
GeneralRateMax == 20

RateLimitMessage == "Too many requests, please try again later."

\* The limiter refuses the request: 429, and the handler does not run.
limited(count) == count >= GeneralRateMax

\* The requests the window of the limiter still admits when the client
\* comes with its tokens.
RequestsLeft == 2

\* The client holds the tokens of a login of admin; the window of the
\* limiter has counted all but RequestsLeft of the requests it admits; the
\* application that mounts the router has set app.locals.sequelize or not.
SessionInit ==
    /\ sequelizeSet \in BOOLEAN
    /\ accounts = InitialAccounts
    /\ held = generateTokens(CHOOSE u \in InitialAccounts : u.id = 1)
    /\ sres = NoSessionResponse
    /\ loggedOut = FALSE
    /\ inflight = NotWaiting
    /\ hits = GeneralRateMax - RequestsLeft

\* The application has just started: the limiter has counted nothing.
LimitInit ==
    /\ sequelizeSet \in BOOLEAN
    /\ accounts = InitialAccounts
    /\ held \in {generateTokens(u) : u \in InitialAccounts}
    /\ sres = NoSessionResponse
    /\ loggedOut = FALSE
    /\ inflight = NotWaiting
    /\ hits = 0

\* The window of 15 minutes of the limiter is over: its counter starts anew.
WindowElapses ==
    /\ hits > 0
    /\ hits' = 0
    /\ UNCHANGED <<accounts, held, sres, loggedOut, inflight, notSessionVars>>

\* Time passes: the access token, which lives 24h, or the refresh token,
\* which lives 7d, expires.
ExpireToken(which) ==
    /\ ~held[which].expired
    /\ held' = [held EXCEPT ![which].expired = TRUE]
    /\ UNCHANGED <<accounts, sres, loggedOut, inflight, hits, notSessionVars>>

\* A row of users is deleted: in a session, the row of the user of the tokens.
DeleteAccount(id) ==
    /\ \E u \in accounts : u.id = id
    /\ accounts' = {u \in accounts : u.id # id}
    /\ UNCHANGED <<held, sres, loggedOut, inflight, hits, notSessionVars>>

\* The role of the user of the tokens is changed.
ChangeRole(role) ==
    /\ \E u \in accounts : u.id = held.accessToken.payload.id /\ u.role # role
    /\ accounts' = {IF u.id = held.accessToken.payload.id THEN [u EXCEPT !.role = role] ELSE u :
                        u \in accounts}
    /\ UNCHANGED <<held, sres, loggedOut, inflight, hits, notSessionVars>>

\* The refresh_token of the body of a refresh request: none, the refresh
\* token held, the access token held, the refresh token with a signature not
\* made with the secret, or a refresh token another application signed with
\* the same secret.
Presentable == {"none", "refreshToken", "accessToken", "forged", "foreign"}

presented(kind) ==
    CASE kind = "none" -> {}
      [] kind = "refreshToken" -> {held.refreshToken}
      [] kind = "accessToken" -> {held.accessToken}
      [] kind = "forged" -> {[held.refreshToken EXCEPT !.signed = FALSE]}
      [] kind = "foreign" -> {[held.refreshToken EXCEPT !.iss = "other-app",
                                                        !.aud = "other-api"]}

\* POST /auth/refresh arrives: the limiter counts it or refuses it; the
\* token is verified and either answered at once or the SELECT of its user
\* is issued.  Without app.locals.sequelize the call of sequelize.query
\* throws and the catch of the route answers.
Refresh(kind) ==
    /\ kind \in Presentable
    /\ LET d == verifyRefresh(presented(kind))
       IN  IF limited(hits)
           THEN /\ sres' = arrivedAt(SessionResponse("refresh", presented(kind), 429,
                                                     RateLimitMessage, {}, {}), hits)
                /\ UNCHANGED <<inflight, hits>>
           ELSE IF d.status # 0
           THEN /\ sres' = arrivedAt(SessionResponse("refresh", presented(kind), d.status,
                                                     d.error, {}, {}), hits)
                /\ hits' = hits + 1
                /\ UNCHANGED inflight
           ELSE IF ~sequelizeSet
           THEN /\ sres' = arrivedAt(caught("refresh", "refresh", presented(kind)), hits)
                /\ hits' = hits + 1
                /\ UNCHANGED inflight
           ELSE /\ inflight = NotWaiting
                /\ inflight' = [Waiting("refresh", "query", presented(kind), d.id,
                                        NoBodyGiven, {}, FALSE) EXCEPT !.nth = hits]
                /\ hits' = hits + 1
                /\ UNCHANGED sres
    /\ UNCHANGED <<accounts, held, loggedOut, notSessionVars>>

\* The SELECT of a refresh or of GET /auth/me is executed and returns the
\* row, or the database fails it and the query rejects.
ReadUser(ok) ==
    /\ inflight.pc = "query"
    /\ inflight' = [inflight EXCEPT !.pc = "answer",
                                    !.read = IF ok THEN userById(accounts, inflight.id) ELSE {},
                                    !.failed = ~ok]
    /\ UNCHANGED <<accounts, held, sres, loggedOut, hits, notSessionVars>>

\* The handler of the refresh goes on: with the row, 401 or new tokens; with
\* the rejection, the catch of the route.
AnswerRefresh ==
    /\ inflight.route = "refresh"
    /\ inflight.pc = "answer"
    /\ sres' = arrivedAt(IF inflight.failed
                         THEN caught("refresh", "refresh", inflight.sent)
                         ELSE answerRefresh(inflight.sent, inflight.read),
                         inflight.nth)
    /\ inflight' = NotWaiting
    /\ UNCHANGED <<accounts, held, loggedOut, hits, notSessionVars>>

\* GET /auth/me with the access token held: authenticate, then the limiter,
\* then the SELECT of the user of the token is issued.
GetProfile ==
    LET a == authenticate(Header(BearerPrefix, held.accessToken))
    IN  /\ IF ~a.next
           THEN /\ sres' = SessionResponse("me", {held.accessToken}, a.status, a.error, {}, {})
                /\ UNCHANGED <<inflight, hits>>
           ELSE IF limited(hits)
           THEN /\ sres' = SessionResponse("me", {held.accessToken}, 429, RateLimitMessage,
                                           {}, {})
                /\ UNCHANGED <<inflight, hits>>
           ELSE IF ~sequelizeSet
           THEN /\ sres' = caught("profile", "me", {held.accessToken})
                /\ hits' = hits + 1
                /\ UNCHANGED inflight
           ELSE /\ inflight = NotWaiting
                /\ inflight' = Waiting("me", "query", {held.accessToken},
                                       held.accessToken.payload.id, NoBodyGiven, {}, FALSE)
                /\ hits' = hits + 1
                /\ UNCHANGED sres
        /\ UNCHANGED <<accounts, held, loggedOut, notSessionVars>>

\* The handler of GET /auth/me goes on: with the row, 404 or the user; with
\* the rejection, the catch of the route.
AnswerGetProfile ==
    /\ inflight.route = "me"
    /\ inflight.pc = "answer"
    /\ sres' = IF inflight.failed
               THEN caught("profile", "me", inflight.sent)
               ELSE IF inflight.read = {}
               THEN SessionResponse("me", inflight.sent, 404, "User not found", {}, {})
               ELSE SessionResponse("me", inflight.sent, 200, "", {}, inflight.read)
    /\ inflight' = NotWaiting
    /\ UNCHANGED <<accounts, held, loggedOut, hits, notSessionVars>>

\* The bodies of PUT /auth/me: an e-mail address, a password, both or none.
ProfileBodies ==
    [email : {{}, {"new@x.com"}, {"bob@x.com"}}, password : {{}, {"short"}, {"password2"}}]

\* PUT /auth/me up to its first await: a short password and a body without
\* email and password are answered 400 at once.
checkProfile(body) ==
    IF \E p \in body.password : Len(p) < MinPasswordLen
    THEN Decision(400, "Validation failed", 0)
    ELSE IF body.password # {} THEN Decision(0, "hash", 0)
    ELSE IF body.email = {} THEN Decision(400, "No updates provided", 0)
    ELSE Decision(0, "update", 0)

\* PUT /auth/me with the access token held: authenticate, then the limiter,
\* then the handler up to its first await.
UpdateProfile(body) ==
    LET a == authenticate(Header(BearerPrefix, held.accessToken))
        d == checkProfile(body)
    IN  /\ body \in ProfileBodies
        /\ IF ~a.next
           THEN /\ sres' = SessionResponse("profile", {held.accessToken}, a.status, a.error,
                                           {}, {})
                /\ UNCHANGED <<inflight, hits>>
           ELSE IF limited(hits)
           THEN /\ sres' = SessionResponse("profile", {held.accessToken}, 429,
                                           RateLimitMessage, {}, {})
                /\ UNCHANGED <<inflight, hits>>
           ELSE IF d.status # 0
           THEN /\ sres' = SessionResponse("profile", {held.accessToken}, d.status, d.error,
                                           {}, {})
                /\ hits' = hits + 1
                /\ UNCHANGED inflight
           ELSE IF d.error = "update" /\ ~sequelizeSet
           THEN /\ sres' = caught("profileUpdate", "profile", {held.accessToken})
                /\ hits' = hits + 1
                /\ UNCHANGED inflight
           ELSE /\ inflight = NotWaiting
                /\ inflight' = Waiting("profile", d.error, {held.accessToken},
                                       held.accessToken.payload.id, body, {}, FALSE)
                /\ hits' = hits + 1
                /\ UNCHANGED sres
        /\ UNCHANGED <<accounts, held, loggedOut, notSessionVars>>

\* await hashPassword(password) has resolved: the UPDATE is issued, or
\* without app.locals.sequelize the call of sequelize.query throws and the
\* catch of the route answers in the same turn.
HashNewPassword ==
    /\ inflight.pc = "hash"
    /\ IF sequelizeSet
       THEN /\ inflight' = [inflight EXCEPT !.pc = "update",
                                            !.body.password = {hashPassword(p) : p \in @}]
            /\ UNCHANGED sres
       ELSE /\ sres' = caught("profileUpdate", "profile", inflight.sent)
            /\ inflight' = NotWaiting
    /\ UNCHANGED <<accounts, held, loggedOut, hits, notSessionVars>>

\* The rows other than id that have the e-mail address: users.email is UNIQUE.
emailTaken(table, id, email) ==
    {u \in table : u.id # id /\ \E e \in email : sameIgnoringCase(u.email, e)}

\* UPDATE users SET email = :email, password = :password WHERE id = :id
updateUser(table, id, body) ==
    {IF u.id = id
     THEN [u EXCEPT !.email = IF body.email = {} THEN @ ELSE CHOOSE e \in body.email : TRUE,
                    !.password = IF body.password = {} THEN @
                                 ELSE CHOOSE p \in body.password : TRUE]
     ELSE u : u \in table}

\* The UPDATE of PUT /auth/me is executed: it fails on an e-mail address
\* another row has, or when the database fails it, and then leaves the
\* table as it is.
ExecuteUpdate(ok) ==
    LET w == inflight
        clash == userById(accounts, w.id) # {} /\ emailTaken(accounts, w.id, w.body.email) # {}
    IN  /\ w.pc = "update"
        /\ accounts' = IF clash \/ ~ok THEN accounts ELSE updateUser(accounts, w.id, w.body)
        /\ inflight' = [inflight EXCEPT !.pc = "answer", !.failed = clash \/ ~ok]
        /\ UNCHANGED <<held, sres, loggedOut, hits, notSessionVars>>

\* The handler of PUT /auth/me goes on: 200, or 500 from its catch.
AnswerUpdate ==
    LET w == inflight
    IN  /\ w.route = "profile"
        /\ w.pc = "answer"
        /\ sres' = IF w.failed
                   THEN caught("profileUpdate", "profile", w.sent)
                   ELSE SessionResponse("profile", w.sent, 200, "", {}, {})
        /\ inflight' = NotWaiting
        /\ UNCHANGED <<accounts, held, loggedOut, hits, notSessionVars>>

\* POST /auth/logout with a server-side revocation of the tokens
LogoutRevoking ==
    LET a == authenticate(Header(BearerPrefix, held.accessToken))
    IN  /\ sres' = IF a.next THEN SessionResponse("logout", {held.accessToken}, 200, "", {}, {})
                   ELSE SessionResponse("logout", {held.accessToken}, a.status, a.error, {}, {})
        /\ loggedOut' = (loggedOut \/ a.next)
        /\ held' = IF a.next
                   THEN [accessToken |-> [held.accessToken EXCEPT !.signed = FALSE],
                         refreshToken |-> [held.refreshToken EXCEPT !.signed = FALSE]]
                   ELSE held
        /\ UNCHANGED <<accounts, inflight, hits, notSessionVars>>

\* POST /auth/logout behind authenticate with the access token held.
Logout ==
    LET a == authenticate(Header(BearerPrefix, held.accessToken))
    IN  /\ sres' = IF a.next THEN SessionResponse("logout", {held.accessToken}, 200, "", {}, {})
                   ELSE SessionResponse("logout", {held.accessToken}, a.status, a.error, {}, {})
        /\ loggedOut' = (loggedOut \/ a.next)
        /\ UNCHANGED <<accounts, held, inflight, hits, notSessionVars>>

\* A request on a protected route with the access token held.
UseAccessToken ==
    LET a == authenticate(Header(BearerPrefix, held.accessToken))
    IN  /\ sres' = SessionResponse("authenticate", {held.accessToken}, a.status, a.error, {}, {})
        /\ UNCHANGED <<accounts, held, loggedOut, inflight, hits, notSessionVars>>

SessionNext ==
    \/ \E which \in {"accessToken", "refreshToken"} : ExpireToken(which)
    \/ DeleteAccount(held.accessToken.payload.id)
    \/ \E role \in {"", "user", "admin"} : ChangeRole(role)
    \/ \E kind \in Presentable : Refresh(kind)
    \/ \E ok \in BOOLEAN : ReadUser(ok)
    \/ AnswerRefresh
    \/ GetProfile
    \/ AnswerGetProfile
    \/ \E body \in ProfileBodies : UpdateProfile(body)
    \/ HashNewPassword
    \/ \E ok \in BOOLEAN : ExecuteUpdate(ok)
    \/ AnswerUpdate
    \/ Logout
    \/ UseAccessToken

\* The limiter from the start of the application on, over the requests to
\* POST /auth/refresh and GET /auth/me and the windows that pass.
LimitNext ==
    \/ WindowElapses
    \/ \E which \in {"accessToken", "refreshToken"} : ExpireToken(which)
    \/ \E kind \in Presentable : Refresh(kind)
    \/ \E ok \in BOOLEAN : ReadUser(ok)
    \/ AnswerRefresh
    \/ GetProfile
    \/ AnswerGetProfile

(***************************************************************************)
(* middleware/authorization-examples.js: checkBusinessRules, applied       *)
(* after authenticate.                                                     *)
(***************************************************************************)

PostLimit == 10

\* req.path inside a middleware mounted with app.use(mount, ...): the path
\* of the request with the mount path taken off; mount "" is app.use(...)
\* without a path.
reqPath(mount, url) ==
    IF mount = "" THEN url
    ELSE IF Len(url) = Len(mount) THEN "/"
    ELSE SubSeq(url, Len(mount) + 1, Len(url))

\* req.path.split('/')[2]: the third piece, {} when there is none (undefined)
entityNameOf(path) ==
    LET parts == Split(path, "/")
    IN  IF Len(parts) >= 3 THEN {parts[3]} ELSE {}

\* user.plan !== 'premium'
planIsNotPremium(user) == ~(Has(user, "plan") /\ user.plan = "premium")

\* user.postCount >= 10, false for a user without postCount
postCountAtLimit(user) == Has(user, "postCount") /\ user.postCount >= PostLimit

RulesOutcome(nextCalled, status, error) ==
    [next |-> nextCalled, status |-> status, error |-> error]

checkBusinessRules(mount, url, method, user) ==
    IF entityNameOf(reqPath(mount, url)) = {"posts"} /\ method = "POST"
       /\ planIsNotPremium(user) /\ postCountAtLimit(user)
    THEN RulesOutcome(FALSE, 403, "Plan limit exceeded")
    ELSE RulesOutcome(TRUE, 0, "")

\* The plan of a user and the number of posts the user has created.
PlanSamples == {"free", "premium"}
PostCountSamples == {0, 9, 10, 11}

\* req.user as authenticate sets it from a token of generateTokens, and as
\* a middleware in between could extend it with plan and postCount.
tokenUser(u) == AccessPayload(u)
extendedUser(u, plan, postCount) ==
    [f \in DOMAIN AccessPayload(u) \cup {"plan", "postCount"} |->
        CASE f = "plan" -> plan
          [] f = "postCount" -> postCount
          [] OTHER -> AccessPayload(u)[f]]

RulesUrls == {"/api/posts", "/api/posts/5", "/api/comments"}
RulesMounts == {"", "/api/posts"}

RulesPending == RulesOutcome(FALSE, 0, "")

RulesInit ==
    /\ breq \in {r \in [mount : RulesMounts, url : RulesUrls, method : Methods,
                        account : UserSamplesAuth, plan : PlanSamples,
                        postCount : PostCountSamples, extended : BOOLEAN] :
                    StartsWith(r.url, r.mount)}
    /\ bout = RulesPending

userOf(r) ==
    IF r.extended THEN extendedUser(r.account, r.plan, r.postCount) ELSE tokenUser(r.account)

\* The request reaches checkBusinessRules.
CheckRules ==
    /\ bout = RulesPending
    /\ bout' = checkBusinessRules(breq.mount, breq.url, breq.method, userOf(breq))
    /\ UNCHANGED <<breq, notRulesVars>>

RulesNext == CheckRules

(***************************************************************************)
(* The specifications: each part of the application runs on its own, the   *)
(* other parts stay as they start.                                         *)
(***************************************************************************)

ValIdle == vreq = [mw |-> "none", method |-> "GET", body |-> <<>>] /\ vout = Pending
AuthIdle == areq = [path |-> "", method |-> "GET", headers |-> NoHeader] /\ aout = AuthPending
StartIdle ==
    /\ env = [DB_DIALECT |-> "", file |-> "explicit", dbUp |-> FALSE, missing |-> ""]
    /\ pc = "off"
    /\ registry = <<>>
    /\ served = NothingServed
    /\ calls = {}
    /\ hit = NoHit
    /\ exitCode = {}
    /\ closing = FALSE
CrudIdle ==
    /\ descr = "entities"
    /\ store = [t \in Tables |-> {}]
    /\ nextId = [t \in Tables |-> 1]
    /\ resp = NoResponse
AssocIdle == links = InitialLinks /\ tx = [r \in ReplaceRequests |-> NoTx] /\ sqlDialect = "sqlite"

\* The REST requests on the table routes.
ErrIdle ==
    /\ ereq = [handler |-> "none", nodeEnv |-> "", errors |-> <<Exception(""), Exception("")>>]
    /\ eout = <<NoBody, NoBody>>
ResolveIdle ==
    /\ decl = [file |-> "none", order |-> <<>>]
    /\ known = <<>>
    /\ resolved = Unresolved
RegisterQuiet ==
    /\ users = InitialUsers
    /\ regs = [r \in RegisterRequests |-> NoRegister]
RegisterIdle ==
    /\ RegisterQuiet
    /\ sequelizeSet = FALSE
SessionIdle ==
    /\ accounts = InitialAccounts
    /\ held = generateTokens(CHOOSE u \in InitialAccounts : u.id = 1)
    /\ sres = NoSessionResponse
    /\ loggedOut = FALSE
    /\ inflight = NotWaiting
    /\ hits = 0
RulesIdle ==
    /\ breq = [mount |-> "", url |-> "", method |-> "GET"]
    /\ bout = RulesPending
Init == CrudInit /\ ValIdle /\ AuthIdle /\ StartIdle /\ AssocIdle /\ ErrIdle /\ ResolveIdle /\ RegisterIdle /\ SessionIdle /\ RulesIdle
Next == CrudNext
Spec == Init /\ [][Next]_vars

\* The validation middleware on one request.
InitVal == ValInit /\ AuthIdle /\ StartIdle /\ CrudIdle /\ AssocIdle /\ ErrIdle /\ ResolveIdle /\ RegisterIdle /\ SessionIdle /\ RulesIdle
SpecVal == InitVal /\ [][ValNext]_vars

\* The security middleware on one request.
InitAuth == AuthInit /\ ValIdle /\ StartIdle /\ CrudIdle /\ AssocIdle /\ ErrIdle /\ ResolveIdle /\ RegisterIdle /\ SessionIdle /\ RulesIdle
SpecAuth == InitAuth /\ [][AuthNext]_vars

\* The startup of the application and the procedure routes it serves.
InitStart == StartInit /\ ValIdle /\ AuthIdle /\ CrudIdle /\ AssocIdle /\ ErrIdle /\ ResolveIdle /\ RegisterIdle /\ SessionIdle /\ RulesIdle
SpecStart == InitStart /\ [][StartNext]_vars

\* Concurrent bulk replaces of a belongsToMany association.
InitAssoc == AssocInit /\ ValIdle /\ AuthIdle /\ StartIdle /\ CrudIdle /\ ErrIdle /\ ResolveIdle /\ RegisterIdle /\ SessionIdle /\ RulesIdle
SpecAssoc == InitAssoc /\ [][AssocNext]_vars

\* Two failing requests in one handler.
InitErr == ErrInit /\ ValIdle /\ AuthIdle /\ StartIdle /\ CrudIdle /\ AssocIdle /\ ResolveIdle /\ RegisterIdle /\ SessionIdle /\ RulesIdle
SpecErr == InitErr /\ [][ErrNext]_vars

\* Registration of one descriptor file in one declaration order.
InitResolve == ResolveInit /\ ValIdle /\ AuthIdle /\ StartIdle /\ CrudIdle /\ AssocIdle /\ ErrIdle /\ RegisterIdle /\ SessionIdle /\ RulesIdle
SpecResolve == InitResolve /\ [][ResolveNext]_vars

\* Concurrent POST /auth/register requests.
InitRegister ==
    RegisterInit /\ ValIdle /\ AuthIdle /\ StartIdle /\ CrudIdle /\ AssocIdle /\ ErrIdle
    /\ ResolveIdle /\ SessionIdle /\ RulesIdle
SpecRegister == InitRegister /\ [][RegisterNext]_vars

\* A client with the tokens of a login.
InitSession ==
    SessionInit /\ ValIdle /\ AuthIdle /\ StartIdle /\ CrudIdle /\ AssocIdle /\ ErrIdle
    /\ ResolveIdle /\ RegisterQuiet /\ RulesIdle
SpecSession == InitSession /\ [][SessionNext]_vars

\* The rate limiter of the auth routes from the start of the application on.
InitLimit ==
    LimitInit /\ ValIdle /\ AuthIdle /\ StartIdle /\ CrudIdle /\ AssocIdle /\ ErrIdle
    /\ ResolveIdle /\ RegisterQuiet /\ RulesIdle
SpecLimit == InitLimit /\ [][LimitNext]_vars

\* One request through checkBusinessRules.
InitRules ==
    RulesInit /\ ValIdle /\ AuthIdle /\ StartIdle /\ CrudIdle /\ AssocIdle /\ ErrIdle
    /\ ResolveIdle /\ RegisterIdle /\ SessionIdle
SpecRules == InitRules /\ [][RulesNext]_vars

(***************************************************************************)
(* Properties of the REST requests (Spec).  resp is the response of the    *)
(* request in progress, resp.pre the store it found and store the store it *)
(* leaves.                                                                  *)
(***************************************************************************)

\* The declared unique fields in which the body of r has the value of a
\* stored record other than the one r addresses.
collidingFields(r) ==
    LET others == IF r.op = "update"
                  THEN {x \in r.pre[r.table] : keyOf(r.table, x) # r.key}
                  ELSE r.pre[r.table]
    IN  collisions(others, r.body, validationOf(descr, r.table).uniqueFields)

\* The business rules of /api/users, one name per rule the body violates.
violatedUserRules(b) ==
    (IF Truthy(b, "email") /\ ~validateEmailDomain(b["email"]).valid
        THEN {"email-domain"} ELSE {})
    \cup (IF Has(b, "age") /\ ~b["age"].isNull /\ b["age"].n < MinAge
        THEN {"age-min"} ELSE {})
    \cup (IF Has(b, "age") /\ ~b["age"].isNull /\ b["age"].n > MaxAge
        THEN {"age-max"} ELSE {})
    \cup (IF Truthy(b, "username") /\ Len(b["username"]) < MinUsernameLen
        THEN {"username-length"} ELSE {})
    \cup (IF Truthy(b, "username") /\ ~MatchesClass(b["username"], UsernameChars)
        THEN {"username-chars"} ELSE {})

\* C1 as stated: every create that collides with a stored record on a
\* declared unique field is answered with the conflict status code of the
\* entity, stores nothing and lists exactly the colliding fields.
C1_CollidingCreateIsConflict ==
    (resp.op = "create" /\ collidingFields(resp) # {}) =>
        /\ resp.status = conflictStatusCodeOf(descr, resp.table)
        /\ store = resp.pre
        /\ resp.fields = collidingFields(resp)

\* C1 amended: a create that the business-rule middleware of its route lets
\* through and that collides with a stored record on a declared unique field
\* is answered with the conflict status code of the entity, stores nothing
\* and lists exactly the colliding fields; on users a stored username with a
\* new e-mail address gives 409 with fields = {username}.
C1_PassedCollidingCreateIsConflict ==
    /\ (resp.op = "create" /\ resp.errors = <<>> /\ collidingFields(resp) # {}) =>
            /\ resp.status = conflictStatusCodeOf(descr, resp.table)
            /\ resp.error = "ConflictViolation"
            /\ store = resp.pre
            /\ resp.fields = collidingFields(resp)
    /\ (/\ resp.op = "create" /\ resp.table = "users" /\ resp.errors = <<>>
        /\ Has(resp.body, "username") /\ Has(resp.body, "email")
        /\ \E r \in resp.pre["users"] : r["username"] = resp.body["username"]
        /\ \A r \in resp.pre["users"] : r["email"] # resp.body["email"]) =>
            /\ resp.status = 409
            /\ resp.fields = {"username"}
            /\ store = resp.pre

\* A second POST on users with a stored username and a new e-mail address.
C1_Witness ==
    /\ resp.op = "create" /\ resp.table = "users"
    /\ Has(resp.body, "email")
    /\ resp.status = 409
    /\ resp.fields = {"username"}
    /\ store = resp.pre

\* C2 as stated: a create or update on users that collides on a declared
\* unique field and violates a business rule is answered with the conflict
\* status code.
C2_ConflictBeforeBusinessRules ==
    (/\ resp.op \in {"create", "update"} /\ resp.table = "users"
     /\ collidingFields(resp) # {}
     /\ violatedUserRules(resp.body) # {}) =>
        resp.status = conflictStatusCodeOf(descr, "users")

\* C2 amended: a create or update on users that collides on a declared
\* unique field and violates a business rule is answered 400 "Validation
\* failed" by validateUserData with its validation errors, names no
\* colliding field and stores nothing.
C2_BusinessRulesBeforeConflict ==
    (/\ resp.op \in {"create", "update"} /\ resp.table = "users"
     /\ collidingFields(resp) # {}
     /\ violatedUserRules(resp.body) # {}) =>
        /\ resp.status = 400
        /\ resp.error = "Validation failed"
        /\ Len(resp.errors) > 0
        /\ resp.fields = {}
        /\ store = resp.pre

\* A POST on users with a stored username and a blocked e-mail domain.
C2_Witness ==
    /\ resp.op = "create" /\ resp.table = "users"
    /\ "username" \in collidingFields(resp)
    /\ "email-domain" \in violatedUserRules(resp.body)
    /\ resp.status = 400

\* C6 as stated: on orders a POST without order_uuid is answered 400 and stores
\* nothing; a POST of an otherwise complete order with a fresh order_uuid is
\* answered 201 and stores the order; a POST of a complete order with a
\* stored order_uuid is answered 409 as a conflict and stores nothing, with
\* and without uniqueFields in the descriptor.
C6_OrdersStringKey ==
    (resp.op = "create" /\ resp.table = "orders") =>
        LET given == Has(resp.body, "order_uuid")
            complete == Has(resp.body, "customer_name") /\ Has(resp.body, "total_amount")
            taken == given /\ \E r \in resp.pre["orders"] :
                                  r["order_uuid"] = resp.body["order_uuid"]
        IN  /\ ~given => (resp.status = 400 /\ store = resp.pre)
            /\ (given /\ complete /\ ~taken) =>
                    /\ resp.status = 201
                    /\ \E r \in store["orders"] :
                          /\ r["order_uuid"] = resp.body["order_uuid"]
                          /\ store["orders"] = resp.pre["orders"] \cup {r}
            /\ (given /\ complete /\ taken) =>
                    /\ resp.status = 409
                    /\ resp.status = conflictStatusCodeOf(descr, "orders")
                    /\ resp.error = "ConflictViolation"
                    /\ store = resp.pre

\* The record a GET with the primary key of row returns on the store the
\* POST leaves is row, and for products the key is product_id.
readBack(row) ==
    /\ getById(resp.table, keyOf(resp.table, row), store, nextId).status = 200
    /\ getById(resp.table, keyOf(resp.table, row), store, nextId).data = {row}
    /\ resp.table = "products" =>
          /\ "product_id" \in DOMAIN row
          /\ getById("products", <<row["product_id"]>>, store, nextId).data = {row}

hundredths(text) ==
    LET parts == Split(text, ".")
        cents == IF Len(parts) = 1 \/ parts[2] = "" THEN 0
                 ELSE IF Len(parts[2]) = 1 THEN 10 * digitsValue(parts[2])
                 ELSE digitsValue(parts[2])
    IN  100 * digitsValue(parts[1]) + cents

\* Whether text is written with exactly two decimals.
twoDecimals(text) == Len(Split(text, ".")) = 2 /\ Len(Split(text, ".")[2]) = 2

C8_DeleteIdempotent ==
    resp.op = "delete" =>
        LET t == resp.table
            gone == resp.pre[t] \ store[t]
            again == deleteById(t, resp.key, store, nextId)
        IN  /\ resp.status \in {200, 404}
            /\ (\A r \in resp.pre[t] : keyOf(t, r) # resp.key) =>
                    (resp.status = 404 /\ store = resp.pre)
            /\ store[t] \subseteq resp.pre[t]
            /\ Cardinality(gone) <= 1
            /\ \A r \in gone : keyOf(t, r) = resp.key
            /\ again.status = 404
            /\ again.store = store

\* A DELETE removed a record and another record of the table remains.
C8_Witness ==
    /\ resp.op = "delete"
    /\ resp.status = 200
    /\ store[resp.table] # {}
    /\ store[resp.table] # resp.pre[resp.table]

\* C9: on order_items a get, update or delete addresses exactly the row
\* whose order_uuid is the first and whose product_id is the second route
\* parameter: without such a row the answer is 404 and nothing changes, a
\* GET with such a row returns it alone, a DELETE removes it alone and an
\* update leaves every other row as it was.
C9_CompoundKey ==
    (resp.table = "order_items" /\ resp.op \in {"get", "update", "delete"}) =>
        LET rows == resp.pre["order_items"]
            exact == {r \in rows : /\ Len(resp.key) = 2
                                   /\ Has(r, "order_uuid") /\ Has(r, "product_id")
                                   /\ r["order_uuid"] = resp.key[1]
                                   /\ r["product_id"] = resp.key[2]}
        IN  /\ exact = {} => (resp.status = 404 /\ resp.data = {} /\ store = resp.pre)
            /\ (resp.op = "get" /\ exact # {}) =>
                    (resp.status = 200 /\ resp.data = exact /\ store = resp.pre)
            /\ (resp.op = "delete" /\ exact # {}) =>
                    (resp.status = 200 /\ store["order_items"] = rows \ exact)
            /\ resp.op = "update" => (rows \ exact) \subseteq store["order_items"]
            /\ Cardinality(exact) <= 1

\* A GET with the two components of a stored key swapped is answered 404.
C9_Witness ==
    /\ resp.op = "get" /\ resp.table = "order_items"
    /\ Len(resp.key) = 2
    /\ resp.key[1] # resp.key[2]
    /\ \E r \in store["order_items"] :
          /\ Has(r, "order_uuid") /\ Has(r, "product_id")
          /\ r["order_uuid"] = resp.key[2] /\ r["product_id"] = resp.key[1]
    /\ resp.status = 404

(***************************************************************************)
(* Properties of the validation middleware (SpecVal).                      *)
(***************************************************************************)

\* The business rules of /api/categories, one name per rule the body violates.
violatedCategoryRules(b) ==
    (IF Truthy(b, "name") /\ Len(b["name"]) < MinCategoryNameLen
        THEN {"name-length"} ELSE {})
    \cup (IF Truthy(b, "slug") /\ ~MatchesClass(b["slug"], SlugChars)
        THEN {"slug-chars"} ELSE {})

violatedRules(r) ==
    IF r.mw = "user" THEN violatedUserRules(r.body) ELSE violatedCategoryRules(r.body)

\* The field a rule is about.
fieldOfRule(rule) ==
    CASE rule = "email-domain" -> "email"
      [] rule \in {"age-min", "age-max"} -> "age"
      [] rule \in {"username-length", "username-chars"} -> "username"
      [] rule = "name-length" -> "name"
      [] rule = "slug-chars" -> "slug"

answered(r) == r.mw \in {"user", "category"} /\ (vout.next \/ vout.status # 0)

\* C3 as stated: a write request that violates business rules gets one 400
\* response with one {field, message} record for every violated rule.
C3_OneRecordPerRule ==
    (answered(vreq) /\ vreq.method \in {"POST", "PUT"} /\ violatedRules(vreq) # {}) =>
        /\ ~vout.next
        /\ vout.status = 400
        /\ Len(vout.errors) = Cardinality(violatedRules(vreq))

\* C3 amended: a write request that violates business rules gets one 400
\* response with exactly one {field, message} record for every field that
\* violates a rule, in the order email, age, username (name, slug); a field
\* that violates two rules is reported once, a username with the length
\* message; a write request that violates no rule is passed on.
C3_OneRecordPerField ==
    (answered(vreq) /\ vreq.method \in {"POST", "PUT"}) =>
        LET fields == {fieldOfRule(rule) : rule \in violatedRules(vreq)}
        IN  /\ violatedRules(vreq) = {} => vout.next
            /\ violatedRules(vreq) # {} =>
                    /\ ~vout.next
                    /\ vout.status = 400
                    /\ Len(vout.errors) = Cardinality(fields)
                    /\ {vout.errors[i].field : i \in 1..Len(vout.errors)} = fields
                    /\ \A i \in 1..Len(vout.errors) :
                          vout.errors[i].field = "username" => i = Len(vout.errors)
                    /\ \A i \in 1..Len(vout.errors) :
                          (/\ vout.errors[i].field = "username"
                           /\ "username-length" \in violatedRules(vreq)) =>
                              vout.errors[i].message =
                                  "Username must be at least 3 characters long"

\* A username that is too short and has an illegal character, with a
\* blocked e-mail domain: three rules, two records.
C3_Witness ==
    /\ vreq.mw = "user" /\ vreq.method = "POST"
    /\ {"email-domain", "username-length", "username-chars"} \subseteq violatedRules(vreq)
    /\ vout.status = 400
    /\ Len(vout.errors) = 2

\* C14: a middleware that has finished either called next() or answered,
\* never both; a write request it passed on violates no rule, a write request
\* that violates a rule is answered 400 and not passed on, and nothing is
\* passed on or answered before the middleware has run.
C14_ValidationBeforeExecution ==
    /\ ~(vout.next /\ vout.status # 0)
    /\ vout.status \in {0, 400}
    /\ (vout.status = 0) = (vout.errors = <<>>)
    /\ (vout.next /\ vreq.method \in {"POST", "PUT"}) => violatedRules(vreq) = {}
    /\ (answered(vreq) /\ vreq.method \in {"POST", "PUT"} /\ violatedRules(vreq) # {}) =>
            (vout.status = 400 /\ ~vout.next)
    /\ (answered(vreq) /\ vreq.method \in {"GET", "DELETE"}) => vout.next

\* A category PUT with an illegal slug, answered 400 and not passed on.
C14_Witness ==
    /\ vreq.mw = "category" /\ vreq.method = "PUT"
    /\ violatedRules(vreq) = {"slug-chars"}
    /\ vout.status = 400
    /\ ~vout.next
    /\ Len(vout.errors) = 1

(***************************************************************************)
(* Properties of the security middleware (SpecAuth).                       *)
(***************************************************************************)

\* The request carries a Bearer token that jwt.verify accepts.
hasVerifiedBearer(h) ==
    /\ h.present
    /\ StartsWith(h.prefix, "Bearer ")
    /\ \E t \in h.token :
          /\ t.signed /\ ~t.expired
          /\ t.iss = "ultimate-crud-app" /\ t.aud = "ultimate-crud-api"

\* The requests the middleware guards.
guarded(r) ==
    \/ StartsWith(r.path, "/api") /\ r.path # "/api-docs"
    \/ r.path = "/graphql" /\ r.method # "GET"

\* C4: a request whose path starts with /api, other than /api-docs, and a
\* non-GET request to /graphql reaches the downstream handler only with a
\* verified Bearer token, as the authenticated user of the token, and is
\* answered 401 without reaching the handler otherwise; every other request
\* is passed on without a look at its token.
C4_ApiRequiresAuth ==
    aout # AuthPending =>
        /\ (guarded(areq) /\ hasVerifiedBearer(areq.headers)) =>
                /\ aout.next /\ aout.authenticated /\ aout.isAuthenticated
                /\ aout.user = {t.payload : t \in areq.headers.token}
        /\ (guarded(areq) /\ ~hasVerifiedBearer(areq.headers)) =>
                /\ ~aout.next
                /\ aout.status = 401
                /\ aout.user = {}
        /\ ~guarded(areq) => aout = PassThrough

\* A request to /api with a Bearer token that does not verify is answered 401.
C4_Witness ==
    /\ areq.path = "/api"
    /\ areq.headers.present
    /\ areq.headers.prefix = "Bearer "
    /\ ~hasVerifiedBearer(areq.headers)
    /\ aout.status = 401
    /\ ~aout.next

(***************************************************************************)
(* Properties of the startup and of the surfaces it serves (SpecStart).    *)
(***************************************************************************)

\* C5 as stated: a procedure entity without an explicit procedure property
\* is never registered, its route is never served, and neither its name nor
\* undefined is ever called as a routine.
C5_MissingProcedureNameRejected ==
    \A i \in 1..Len(entities(env)) :
        LET d == entities(env)[i]
        IN  (d.type = "procedure" /\ d.procedure = {}) =>
                /\ \A j \in 1..Len(registry) : registry[j] # d
                /\ [method |-> "POST", route |-> d.route] \notin served.rest
                /\ calls \cap {"undefined", d.name} = {}

NonTableNames ==
    {"post_stats", "user_analytics", "category_summary", "recent_posts",
     "search_posts", "user_summary", "popular_posts"}

GraphQLOperations == {"single", "list", "create", "update", "delete"}

\* C10: once initialize() has resolved, the GraphQL schema has the query
\* fields {name} and {name}List and the create, update and delete mutations
\* of every table entity and of no other entity, none for a view, query or
\* procedure entity, and every view, query and procedure entity has its
\* REST route.
C10_GraphQLOnlyTables ==
    pc = "listening" =>
        LET idx == 1..Len(registry)
            tables == {registry[i].name : i \in {j \in idx : registry[j].type = "table"}}
        IN  /\ registry = entities(env)
            /\ served.graphql = {[op |-> o, entity |-> n] : o \in GraphQLOperations, n \in tables}
            /\ \A f \in served.graphql : f.entity \notin NonTableNames
            /\ \A i \in idx : registry[i].type # "table" =>
                    /\ registry[i].name \in NonTableNames
                    /\ \E rt \in served.rest : rt.route = registry[i].route

\* The application listens with a procedure entity registered and GraphQL
\* fields generated.
C10_Witness ==
    /\ pc = "listening"
    /\ \E i \in 1..Len(registry) : registry[i].type = "procedure"
    /\ \E i \in 1..Len(registry) : registry[i].type = "view"
    /\ served.graphql # {}

ViewRoutes == {"/api/post-stats", "/api/user-analytics", "/api/category-summary"}

\* C11: a request on a view route is answered 200 from a select when its
\* method is GET and is otherwise rejected with UnsupportedOperationError,
\* status 405, without any query constructed; only GET is served on a view
\* route, and no request on a view route constructs a query that writes.
C11_ViewsReadOnly ==
    /\ \A rt \in served.rest : rt.route \in ViewRoutes => rt.method = "GET"
    /\ hit.route \in ViewRoutes =>
          /\ hit.query \in {"none", "select"}
          /\ hit.method = "GET" => (hit.status = 200 /\ hit.query = "select")
          /\ hit.method # "GET" =>
                /\ hit.status = 405
                /\ hit.error = "UnsupportedOperationError"
                /\ hit.query = "none"

\* A POST on the route of the post_stats view is rejected.
C11_Witness ==
    /\ hit.route = "/api/post-stats"
    /\ hit.method = "POST"
    /\ hit.status = 405

\* C13: the application listens only with the database connection checked
\* and every entity of the descriptor file registered, none of them missing
\* from the database; a failed connection check or a missing table or view
\* keeps the process from ever listening or serving, exit code 1 is the
\* code of such a failure only and exit code 0 that of a shutdown by
\* SIGINT only, no request is served before the application listens, and
\* an exited process has one of the two codes.
C13_ListenAfterInitialize ==
    /\ pc = "listening" =>
          /\ env.dbUp
          /\ registry = entities(env)
          /\ \A i \in 1..Len(registry) :
                registry[i].type \in {"table", "view"} => registry[i].name # env.missing
          /\ exitCode = {}
    /\ (~env.dbUp \/ env.missing # "") =>
          /\ pc # "listening"
          /\ served = NothingServed
          /\ pc = "exited" /\ ~closing => exitCode = {1}
    /\ pc = "exited" <=> exitCode # {}
    /\ exitCode \subseteq {0, 1}
    /\ exitCode = {1} => (~env.dbUp \/ env.missing # "")
    /\ exitCode = {0} => closing
    /\ (hit # NoHit \/ calls # {}) =>
          env.dbUp /\ env.missing = "" /\ registry = entities(env) /\ served # NothingServed

\* The post_stats view is missing: the process has exited with code 1 after
\* registering the entities declared before it.
C13_Witness ==
    /\ env.dbUp
    /\ env.missing = "post_stats"
    /\ pc = "exited"
    /\ exitCode = {1}
    /\ Len(registry) = 4

(***************************************************************************)
(* Properties of the bulk replace of an association (SpecAssoc).           *)
(***************************************************************************)

\* The complete sets owner o can have: the set it started with and the new
\* set of every committed replace on o.
completeSets(o) ==
    {rolesOf(InitialLinks[o])}
    \cup {tx[r].target : r \in {q \in ReplaceRequests :
                                  tx[q].state = "committed" /\ tx[q].owner = o}}

\* C12 as stated: the links of every owner are at all times the complete
\* set the owner started with or the complete new set of a committed
\* replace, also while replaces are in progress and after one has failed
\* half-way; while no replace on an owner has committed the owner keeps its
\* old links.
C12_ReplaceIsAtomic ==
    \A o \in Owners :
        /\ rolesOf(links[o]) \in completeSets(o)
        /\ (\A r \in ReplaceRequests : tx[r].owner = o => tx[r].state # "committed") =>
                links[o] = InitialLinks[o]

(***************************************************************************)
(* Properties of the error responses (SpecErr).                            *)
(***************************************************************************)

\* The values of the properties of a response body.
bodyValues(b) == {b[f] : f \in DOMAIN b}

\* C15: outside development mode two failing requests of one handler that
\* differ only in the exception get the same response body, and no property
\* of a body is the message or the stack of the exception.
C15_NoExceptionTextOutsideDevelopment ==
    (ereq.nodeEnv # "development" /\ eout[1] # NoBody /\ eout[2] # NoBody) =>
        /\ eout[1] = eout[2]
        /\ \A i \in {1, 2} :
              bodyValues(eout[i].body)
                  \cap {ereq.errors[i].message, ereq.errors[i].stack} = {}

(***************************************************************************)
(* Properties of the entity kinds under DB_DIALECT (SpecStart).            *)
(***************************************************************************)

DialectDependent == {"user_summary", "popular_posts"}

\* C16: every registered dialect-dependent entity is of kind 'query' with
\* sql exactly when the dialect of the database connection is sqlite, and of
\* kind 'procedure' otherwise, for every setting of DB_DIALECT, unset too.
C16_KindAgreesWithConnectionDialect ==
    env.file = "dialect" =>
        \A i \in 1..Len(registry) :
            registry[i].name \in DialectDependent =>
                /\ (registry[i].type = "query" /\ registry[i].sql)
                      <=> dbConfigDialect(env) = "sqlite"
                /\ registry[i].type = "procedure" <=> dbConfigDialect(env) # "sqlite"

(***************************************************************************)
(* Properties of association resolution (SpecResolve).                     *)
(***************************************************************************)

\* The position of entity name in the declaration order of the state.
declaredAt(name) ==
    CHOOSE i \in 1..Len(decl.order) : inOrder(decl.file, decl.order)[i].name = name

\* C17: once pass 2 has run, its outcome (success with the resolved
\* associations, or the failure) is the outcome of registering the same
\* descriptors in any other order; the files of the repository resolve in
\* every order.
C17_ResolutionIgnoresDeclarationOrder ==
    (resolved # Unresolved) =>
        /\ \A p \in Orders(decl.file) :
              resolveAssociations(decl.file, inOrder(decl.file, p)) = resolved
        /\ decl.file \in {"ecommerce", "blog"} => resolved.ok

\* products declared before categories and order_items, resolved.
C17_Witness ==
    /\ decl.file = "ecommerce"
    /\ declaredAt("products") < declaredAt("categories")
    /\ declaredAt("products") < declaredAt("order_items")
    /\ decl.order # [i \in 1..5 |-> i]
    /\ resolved.ok
    /\ \E a \in resolved.associations :
          a.owner = "products" /\ a.as = "category" /\ a.target = "categories"

(***************************************************************************)
(* Properties of POST /auth/register (SpecRegister).                       *)
(***************************************************************************)

admins(table) == {table[i].username : i \in {k \in 1..Len(table) : table[k].role = "admin"}}

\* C18: registrations never add an administrator: whatever the bodies, the
\* set of users with role 'admin' stays the set the table started with, and
\* no request is answered 201 with role 'admin'.
C18_RegisterNeverStoresAdmin ==
    /\ admins(users) = admins(InitialUsers)
    /\ \A r \in RegisterRequests : regs[r].status = 201 => regs[r].role # "admin"

\* Two finished requests without a role that carry the same username or the
\* same email, none of them present in the table beforehand, on an
\* application with its database connection set.
colliding(r, q) ==
    /\ r # q
    /\ regs[r].pc = "done" /\ regs[q].pc = "done"
    /\ ~Has(regs[r].body, "role") /\ ~Has(regs[q].body, "role")
    /\ regs[r].status # 400 /\ regs[q].status # 400
    /\ sequelizeSet
    /\ existingUser(InitialUsers, regs[r].body) = {}
    /\ existingUser(InitialUsers, regs[q].body) = {}
    /\ \/ sameIgnoringCase(regs[r].body.username, regs[q].body.username)
       \/ sameIgnoringCase(regs[r].body.email, regs[q].body.email)

\* C19: of two concurrent registrations with the same username or the same
\* email exactly one is answered 201 and creates a row, the other is
\* answered 409 'User already exists' and creates none.
C19_OneRegistrationWins ==
    \A r, q \in RegisterRequests :
        colliding(r, q) =>
            /\ {regs[r].status, regs[q].status} = {201, 409}
            /\ \A p \in {r, q} : regs[p].status = 409 => regs[p].error = "User already exists"
            /\ Len(users) = Len(InitialUsers) + 1

(***************************************************************************)
(* Properties of authenticate on refresh tokens (SpecAuth).                *)
(***************************************************************************)

\* The request carries as Bearer token a refresh token of generateTokens.
bearsRefreshToken ==
    /\ areq.headers.present
    /\ StartsWith(areq.headers.prefix, BearerPrefix)
    /\ \E u \in UserSamplesAuth : areq.headers.token = {generateTokens(u).refreshToken}

\* C20: a request that authenticate has handled and that carries a refresh
\* token as its Bearer token is answered 401 and not passed on, and req.user
\* is never the payload of a refresh token.
C20_RefreshTokenIsNotAccessToken ==
    /\ (aout.authenticated /\ bearsRefreshToken) =>
            (aout.status = 401 /\ ~aout.next /\ aout.user = {})
    /\ \A u \in UserSamplesAuth : aout.user # {RefreshPayload(u)}

(***************************************************************************)
(* Properties of authenticate (SpecAuth).                                  *)
(***************************************************************************)

\* The token of the request, when the header is present with the prefix
\* 'Bearer ' and the token is signed with the secret, not expired and has
\* the issuer and the audience of the application.
goodBearer ==
    /\ areq.headers.present
    /\ StartsWith(areq.headers.prefix, "Bearer ")
    /\ \A t \in areq.headers.token :
          /\ t.signed
          /\ ~t.expired
          /\ t.iss = "ultimate-crud-app"
          /\ t.aud = "ultimate-crud-api"

\* C22: a request authenticate has handled has one outcome: passed on with
\* req.user the payload of its verified token and req.isAuthenticated true,
\* or answered 401 and not passed on with neither set; a request whose
\* header is absent, lacks the prefix or carries a token that fails
\* verification never gets req.user or req.isAuthenticated.
C22_AuthenticateOneOutcome ==
    /\ aout.authenticated =>
          \/ /\ goodBearer
             /\ aout.next /\ aout.status = 0
             /\ aout.isAuthenticated
             /\ aout.user = {t.payload : t \in areq.headers.token}
          \/ /\ ~goodBearer
             /\ ~aout.next /\ aout.status = 401
             /\ ~aout.isAuthenticated
             /\ aout.user = {}
    /\ ~goodBearer => (aout.user = {} /\ ~aout.isAuthenticated)
    /\ ~(aout.next /\ aout.status # 0)

\* An expired token of the application behind 'Bearer ', answered 401.
C22_Witness ==
    /\ aout.authenticated
    /\ areq.headers.present
    /\ areq.headers.prefix = "Bearer "
    /\ \E t \in areq.headers.token :
          t.signed /\ t.expired /\ t.iss = Issuer /\ t.aud = Audience
    /\ aout.status = 401
    /\ aout.error = "Authentication failed"
    /\ ~aout.next

(***************************************************************************)
(* Properties of the age and e-mail rules of validateUserData (SpecVal).   *)
(***************************************************************************)

\* The fields the 400 answer of the request reports.
reportedFields == {vout.errors[i].field : i \in 1..Len(vout.errors)}

writeHandledByUserData ==
    vreq.mw = "user" /\ vreq.method \in {"POST", "PUT"} /\ answered(vreq)

\* C24: a POST or PUT with an age below 18 or not less than 120 is answered
\* 400 with an error on field age; an age of at least 18 and less than 120,
\* a null age and an absent age are never reported.
C24_AgeBetween18And120 ==
    writeHandledByUserData =>
        IF Has(vreq.body, "age") /\ ~vreq.body["age"].isNull
        THEN IF vreq.body["age"].n < 18 \/ ~(vreq.body["age"].n < 120)
             THEN vout.status = 400 /\ ~vout.next /\ "age" \in reportedFields
             ELSE "age" \notin reportedFields
        ELSE "age" \notin reportedFields

\* The domain of an e-mail address: what follows its final '@'.
domainOf(email) == LET parts == Split(email, "@") IN parts[Len(parts)]

inBlockedDomain(email) ==
    /\ IndexOf(email, "@") # 0
    /\ \E d \in {"gmail.com", "tempmail.org", "10minutemail.com"} :
          sameIgnoringCase(domainOf(email), d)

\* C25: a POST or PUT whose e-mail address is in a blocked domain, in any
\* letter case and whatever precedes the final '@', is answered 400 with an
\* error on field email and not passed on; a request with another method is
\* never rejected.
C25_BlockedDomainsRejected ==
    /\ (writeHandledByUserData /\ Has(vreq.body, "email")
            /\ inBlockedDomain(vreq.body["email"])) =>
          (vout.status = 400 /\ ~vout.next /\ "email" \in reportedFields)
    /\ (vreq.mw = "user" /\ answered(vreq) /\ vreq.method \notin {"POST", "PUT"}) =>
          (vout.next /\ vout.status = 0)

(***************************************************************************)
(* Properties of the rejections of POST /auth/register (SpecRegister).     *)
(***************************************************************************)

bodyComplete(b) == b.username # "" /\ b.email # "" /\ b.password # ""

\* The rows the requests have created: everything after the initial rows.
createdRows == {users[i] : i \in (Len(InitialUsers) + 1)..Len(users)}

\* The id of the row request r has inserted, 0 when it has inserted none:
\* the id its handler was given, or the id the database holds for it.
insertedBy(r) == IF regs[r].id # 0 THEN regs[r].id ELSE regs[r].reply.id

\* C27: a request answered 400 or 409 has created no row and got no tokens,
\* so the table holds the initial rows and one row for every request that
\* reached its insert successfully; a request with a missing field is
\* answered 400 with the required-fields message also when its password is
\* short, a complete request with a short password 400 with the password
\* message; only complete requests with a long enough password go on to the
\* existence check, the 409 and the insert.
C27_RejectedRegisterChangesNothing ==
    /\ \A r \in RegisterRequests :
          /\ regs[r].status \in {400, 409} =>
                /\ insertedBy(r) = 0
                /\ regs[r].role = ""
                /\ regs[r].pc = "done"
          /\ regs[r].pc # "idle" =>
                /\ ~bodyComplete(regs[r].body) =>
                      (regs[r].status = 400 /\ regs[r].message = RequiredMessage)
                /\ (bodyComplete(regs[r].body) /\ Len(regs[r].body.password) < 8) =>
                      (regs[r].status = 400 /\ regs[r].message = PasswordMessage)
                /\ (bodyComplete(regs[r].body) /\ Len(regs[r].body.password) >= 8) =>
                      regs[r].status # 400
          /\ regs[r].status = 409 => regs[r].error = "User already exists"
    /\ SubSeq(users, 1, Len(InitialUsers)) = InitialUsers
    /\ {row.id : row \in createdRows} = {insertedBy(r) : r \in RegisterRequests} \ {0}
    /\ \A r \in RegisterRequests :
          insertedBy(r) # 0 =>
              /\ regs[r].status \in {0, 201}
              /\ users[insertedBy(r)].username = regs[r].body.username
              /\ users[insertedBy(r)].email = regs[r].body.email

\* One request registered alice, the other asked for the same username with
\* another e-mail address and was answered 409: one row was created.
C27_Witness ==
    \E r, q \in RegisterRequests :
        /\ regs[r].status = 201 /\ regs[r].body.username = "alice"
        /\ regs[q].status = 409 /\ regs[q].body.username = "alice"
        /\ regs[q].body.email # regs[r].body.email
        /\ regs[q].id = 0
        /\ Len(users) = Len(InitialUsers) + 1

(***************************************************************************)
(* Properties of POST /auth/refresh and POST /auth/logout (SpecSession).   *)
(***************************************************************************)

refreshed == sres.op = "refresh" /\ sres.status = 200

issued == CHOOSE t \in sres.tokens : TRUE

\* The row the issued tokens were made from.
issuedFor == {u \in sres.read : u.id = issued.accessToken.payload.id}

\* The refresh request that sres answers carried a token whose signature
\* was made with the secret and that had not expired.
sentVerifies == \E t \in sres.sent : t.signed /\ ~t.expired

\* The token it carried has type 'refresh'.
sentIsRefresh == \E t \in sres.sent : "type" \in DOMAIN t.payload /\ t.payload.type = "refresh"

\* What the two statements of C21 have in common, for every answer to a
\* refresh: the rate limiter answers 429 exactly to the requests beyond
\* those it admits; of the requests it admits, one without a token is
\* answered 400, one with a token that does not verify or is not a refresh
\* token 401, one with a refresh token whose user is not in users 401, and
\* one with a refresh token whose user is in users 200 with tokens; the
\* answer is 500 exactly when the handler threw, which it does only for a
\* refresh token that verifies and always when app.locals.sequelize is not
\* set; no answer but 200 carries tokens.
refreshAnswers ==
    sres.op = "refresh" =>
        /\ sres.status \in {200, 400, 401, 429, 500}
        /\ sres.status = 429 <=> sres.nth >= GeneralRateMax
        /\ sres.status = 429 => sres.error = RateLimitMessage
        /\ sres.status = 500 <=> sres.threw
        /\ sres.status = 500 =>
              /\ sres.error = "Token refresh failed"
              /\ sres.nth < GeneralRateMax /\ sentVerifies /\ sentIsRefresh
        /\ sres.status # 200 => sres.tokens = {}
        /\ sres.nth < GeneralRateMax =>
              /\ sres.sent = {} =>
                    sres.status = 400 /\ sres.error = "Validation failed"
              /\ (sres.sent # {} /\ ~sentVerifies) =>
                    sres.status = 401 /\ sres.error = "Invalid refresh token"
              /\ (sentVerifies /\ ~sentIsRefresh) =>
                    sres.status = 401 /\ sres.error = "Invalid token type"
              /\ (sentVerifies /\ sentIsRefresh /\ ~sequelizeSet) => sres.status = 500
              /\ (sentVerifies /\ sentIsRefresh /\ ~sres.threw /\ sres.read = {}) =>
                    sres.status = 401 /\ sres.error = "User not found"
              /\ (sentVerifies /\ sentIsRefresh /\ ~sres.threw /\ sres.read # {}) =>
                    sres.status = 200 /\ sres.tokens # {}

\* C21 as stated: the answers of a refresh as above, and the new access
\* token carries the username, email and role of the row as read at refresh
\* time.
C21_RefreshCarriesStoredRole ==
    /\ refreshAnswers
    /\ refreshed =>
          \E u \in issuedFor :
              /\ issued.accessToken.payload.username = u.username
              /\ issued.accessToken.payload.email = u.email
              /\ issued.accessToken.payload.role = u.role

\* C21 amended: the answers of a refresh as above, and the new tokens are
\* signed, not expired and made for the user of the refresh token presented
\* from the row as read at refresh time: the access token carries its
\* username and email and its role, or 'user' when the row has no role.
C21_RefreshCarriesCurrentUser ==
    /\ refreshAnswers
    /\ refreshed =>
          /\ \A t \in sres.sent :
                t.payload = [id |-> issued.accessToken.payload.id, type |-> "refresh"]
          /\ \E u \in issuedFor :
              /\ issued.accessToken.payload.username = u.username
              /\ issued.accessToken.payload.email = u.email
              /\ issued.accessToken.payload.role = (IF u.role = "" THEN "user" ELSE u.role)
              /\ issued.refreshToken.payload.id = u.id
          /\ issued.accessToken.signed /\ ~issued.accessToken.expired
          /\ issued.refreshToken.signed /\ ~issued.refreshToken.expired

\* A refresh after the profile and the role of the user changed: the new
\* access token differs from the one held in e-mail and role.
C21_Witness ==
    /\ refreshed
    /\ issued.accessToken.payload.email = "new@x.com"
    /\ issued.accessToken.payload.email # held.accessToken.payload.email
    /\ issued.accessToken.payload.role # held.accessToken.payload.role

\* A step that answers a logout.
logoutStep == sres'.op = "logout" /\ (sres' # sres \/ loggedOut' # loggedOut)

\* What holds in every state: once a logout has succeeded, the access token
\* is accepted by authenticate while it has not expired, and the refresh
\* token sent before its expiry is accepted by POST /auth/refresh, which
\* answers 200 when it finds the user and 401 'User not found' when it does
\* not, unless the rate limiter refuses the request with 429 or the handler
\* throws on its way to the user and answers 500.
acceptedAfterLogout ==
    /\ held \in {[accessToken |-> [t.accessToken EXCEPT !.expired = ea],
                  refreshToken |-> [t.refreshToken EXCEPT !.expired = er]] :
                    t \in {generateTokens(u) : u \in InitialAccounts},
                    ea \in BOOLEAN, er \in BOOLEAN}
    /\ (loggedOut /\ sres.op = "authenticate"
            /\ \A t \in sres.sent : ~t.expired) => sres.status = 0
    /\ (loggedOut /\ sres.op = "refresh"
            /\ \E t \in sres.sent : t = [held.refreshToken EXCEPT !.expired = FALSE]) =>
          \/ sres.status = 200 /\ sres.read # {}
          \/ sres.status = 401 /\ sres.error = "User not found" /\ sres.read = {}
          \/ sres.status = 429 /\ sres.error = RateLimitMessage
          \/ sres.status = 500 /\ sres.error = "Token refresh failed" /\ sres.threw

\* C26: a logout changes neither the users table nor the tokens nor the
\* requests that wait for the database, and after
\* a successful logout the same access token is still accepted by
\* authenticate and the same refresh token by POST /auth/refresh, until each
\* expires.
C26_LogoutRevokesNothing ==
    /\ []acceptedAfterLogout
    /\ [][logoutStep => (accounts' = accounts /\ held' = held /\ inflight' = inflight)]_vars

\* After a successful logout the refresh token held got new tokens.
C26_Witness ==
    /\ loggedOut
    /\ sres.op = "refresh"
    /\ sres.sent = {held.refreshToken}
    /\ sres.status = 200
    /\ sres.tokens # {}

(***************************************************************************)
(* Properties of checkBusinessRules (SpecRules).                           *)
(***************************************************************************)

\* The request creates a post for a user over the limit of the plan.
overPlanLimit ==
    /\ breq.method = "POST"
    /\ breq.url = "/api/posts"
    /\ breq.plan # "premium"
    /\ breq.postCount >= 10

\* C23: a handled POST /api/posts of a user who is not premium and has 10
\* or more posts is answered 403 'Plan limit exceeded' and not passed on;
\* every other request is passed on.
C23_PlanLimitEnforced ==
    bout # RulesPending =>
        IF overPlanLimit
        THEN bout.status = 403 /\ bout.error = "Plan limit exceeded" /\ ~bout.next
        ELSE bout.next /\ bout.status = 0

====
